---------------------------- MODULE Spec2Model ----------------------------
(***************************************************************************)
(* Room sessions of the realtime whiteboard server (backend/server.js) and *)
(* the chunked image transfer of its browser client.                       *)
(*                                                                         *)
(* The server is one Node.js process.  A handler runs without preemption   *)
(* up to its next `await` on a store (Redis) call; there it is suspended   *)
(* and other handlers run.  The store client answers its commands in the   *)
(* order they were issued, so the suspended handlers form the FIFO `cmdq`: *)
(* the head is the next one to be resumed, with the command's effect on    *)
(* the store applied at that moment.                                       *)
(***************************************************************************)
EXTENDS Integers, Sequences, FiniteSets, TLC

\* ------------------------------------------------------------- bounds
MaxQ == 3          \* handlers that may be suspended on the store at once
MaxLog == 2        \* draw events accepted per room
MaxImages == 1     \* pasteImage events accepted per room
MaxTs == 2         \* the clock values a client stamps an image with
MaxNow == 3        \* the server clock stops here
MaxSends == 1      \* images a client hands to sendImageInChunks
MaxPayload == 5    \* characters of an image payload

\* ------------------------------------------------------------- values
Sockets == {"s1", "s2", "s3"}          \* socket.id of the connections
Codes == {"r1", "r2"}              \* room codes
Tokens == {"t1"}                   \* creatorId made by GET /api/create-room
Strokes == {"a", "b"}              \* payloads of draw events
Timestamps == 1..MaxTs             \* Date.now() of the clients
None == "null"                     \* currentRoom === null
Undef == "undefined"               \* a field or header that is not there
HeaderVals == Tokens \cup {Undef}  \* handshake.headers['x-creator-id']
BTrue == "true"                    \* the boolean true
BFalse == "false"                  \* the boolean false
STrue == "'true'"                  \* the string 'true' (a store value)
SFalse == "'false'"                \* the string 'false' (a store value)

VARIABLES
    redis,        \* "none": redisClient is null; "up"/"down": isRedisAvailable()
    rooms,        \* the in-memory room table
    hash,         \* store: the hash room:<code>
    points,       \* store: the list room:<code>:points (serialized strokes)
    images,       \* store: the list room:<code>:images (serialized images)
    adapter,      \* io.sockets.adapter.rooms: the live set of each room
    conn,         \* "new", "open" or "closed" per socket
    header,       \* the x-creator-id header each socket connected with
    currentRoom,  \* the closure variable currentRoom of each connection
    userRooms,    \* the map userRooms
    cmdq,         \* suspended handlers, in the order of their store commands
    now,          \* Date.now() of the server, in hours
    out,          \* the notifications emitted by the last step
    ev,           \* the event whose handler ran (or resumed) in the last step
    accepted,     \* history: the strokes that passed the draw gate since the
                  \* room's log was last cleared, each with the fate of its save
    live,         \* history: the images delivered live to members, per room
    proc,         \* "running", or "exited" once an unhandled rejection has
                  \* ended the Node.js process
    sweep,        \* the position of the setInterval callback
    upq,          \* per connection: imageChunk events the client has emitted
                  \* and the server has not handled yet
    downq,        \* per connection: imageChunk events relayed to the client
                  \* that its handler has not run for yet
    imageChunks,  \* per client: the reassembly sessions, by timestamp
    canvas,       \* per client: the images drawn from completed transfers
    sent,         \* history: the images handed to sendImageInChunks
    seen          \* history: the chunks each client's handler has run for

clientVars == <<upq, downq, imageChunks, canvas, sent, seen>>

vars == <<redis, rooms, hash, points, images, adapter, conn, header,
          currentRoom, userRooms, cmdq, now, out, ev, accepted, live,
          proc, sweep, clientVars>>

\* ------------------------------------------------------------ records
NoRoom == [present |-> FALSE, lastActive |-> 0, users |-> 0,
           creatorId |-> Undef, drawingEnabled |-> Undef]

NoKey == [present |-> FALSE, lastActive |-> 0, users |-> 0,
          creatorId |-> Undef, drawingEnabled |-> Undef, ttl |-> "none"]

NoEv == [kind |-> "none", s |-> None, c |-> None, d |-> None]

Ev(kind, s, c, d) == [kind |-> kind, s |-> s, c |-> c, d |-> d]

Cmd(k, s, c, d) == [k |-> k, s |-> s, c |-> c, d |-> d]

Msg(c, e) == [to |-> None, ev |-> e, room |-> c, from |-> None, users |-> -1,
              isCreator |-> FALSE, enabled |-> Undef, data |-> <<>>]

\* no reassembly session under a timestamp
NoSession == [present |-> FALSE, chunks |-> <<>>, meta |-> [userId |-> None, timestamp |-> 0],
              received |-> 0]

\* the setInterval callback at rest
NoSweep == [phase |-> "idle", todo |-> <<>>, orph |-> [c \in Codes |-> NoRoom]]

\* ------------------------------------------------------- conversions
\* JSON.stringify of a draw or image payload (an object), and JSON.parse of a
\* stored entry: the text of an object gives the object back, any other text
\* is the literal null or makes JSON.parse throw.
JSONstringify(v) == [text |-> "object", v |-> v]

JSONparse(e) == IF e.text = "object" THEN [null |-> FALSE, v |-> e.v]
                ELSE [null |-> TRUE, v |-> e.v]

\* a replay that parses the stored list as one text: one entry that does not
\* give a value empties the whole result
parseWhole(l) ==
    IF \E i \in 1..Len(l) : JSONparse(l[i]).null THEN <<>>
    ELSE [i \in 1..Len(l) |-> JSONparse(l[i]).v]

\* pointsData.map(JSON.parse or null).filter(p => p !== null)
RECURSIVE parseList(_)
parseList(l) ==
    IF l = <<>> THEN <<>>
    ELSE LET p == JSONparse(Head(l)) IN
         IF p.null THEN parseList(Tail(l))
         ELSE <<p.v>> \o parseList(Tail(l))

\* roomData of hGetAll, after the parseInt conversions
roomData(h) == [present |-> TRUE,
                lastActive |-> IF h.lastActive = 0 THEN now ELSE h.lastActive,
                users |-> h.users,
                creatorId |-> h.creatorId,
                drawingEnabled |-> h.drawingEnabled]

\* ------------------------------------------------------------ helpers
isRedisAvailable == redis = "up"

\* the sockets of a live set that still have a connection to receive on
Receivers(ad, cn, c) == IF c = None THEN {} ELSE {t \in ad[c] : cn[t] = "open"}

SockSeq == <<"s1", "s2", "s3">>

\* one copy of message m for each socket of S, in a fixed order
fanOut(S, m) ==
    LET q == SelectSeq(SockSeq, LAMBDA t : t \in S)
    IN  [i \in 1..Len(q) |-> [m EXCEPT !.to = q[i]]]

\* io.to(c).emit / socket.to(c).emit / socket.emit
toRoom(ad, cn, c, m) == fanOut(Receivers(ad, cn, c), m)

toOthers(ad, cn, c, s, m) == fanOut(Receivers(ad, cn, c) \ {s}, m)

toSocket(cn, s, m) == IF cn[s] = "open" THEN <<[m EXCEPT !.to = s]>> ELSE <<>>

size(ad, c) == Cardinality(ad[c])

\* updateRoomInfo(roomCode): the new room table and what it emits
updateRoomInfo(rm, ad, cn, c) ==
    IF ~rm[c].present THEN [rooms |-> rm, out |-> <<>>]
    ELSE IF rm[c].users # size(ad, c)
         THEN [rooms |-> [rm EXCEPT ![c].users = size(ad, c), ![c].lastActive = now],
               out |-> toRoom(ad, cn, c,
                              [Msg(c, "userCountUpdated") EXCEPT !.users = size(ad, c)])]
         ELSE [rooms |-> rm, out |-> <<>>]

\* a creator test that lets every connection pass
isCreatorAnyone(s, r) == TRUE

\* socket.id === roomInfo.creatorId || headers['x-creator-id'] === roomInfo.creatorId
isCreator(s, r) == s = r.creatorId \/ header[s] = r.creatorId


\* ---------------------------------------------------------- connection
\* io.on('connection'): a client connects, with or without a creator header
Connect(s, h) ==
    /\ proc = "running"
    /\ conn[s] = "new"
    /\ conn' = [conn EXCEPT ![s] = "open"]
    /\ header' = [header EXCEPT ![s] = h]
    /\ out' = <<>>
    /\ ev' = Ev("connection", s, None, h)
    /\ UNCHANGED <<proc, sweep, clientVars>>
    /\ UNCHANGED <<redis, rooms, hash, points, images, adapter, currentRoom,
                   userRooms, cmdq, now, accepted, live>>

\* the store client's 'error' and 'connect' events
RedisError ==
    /\ proc = "running"
    /\ redis = "up"
    /\ redis' = "down"
    /\ out' = <<>>
    /\ ev' = Ev("redis.error", None, None, None)
    /\ UNCHANGED <<proc, sweep, clientVars>>
    /\ UNCHANGED <<rooms, hash, points, images, adapter, conn, header, currentRoom,
                   userRooms, cmdq, now, accepted, live>>

RedisConnect ==
    /\ proc = "running"
    /\ redis = "down"
    /\ redis' = "up"
    /\ out' = <<>>
    /\ ev' = Ev("redis.connect", None, None, None)
    /\ UNCHANGED <<proc, sweep, clientVars>>
    /\ UNCHANGED <<rooms, hash, points, images, adapter, conn, header, currentRoom,
                   userRooms, cmdq, now, accepted, live>>

\* ------------------------------------------------------------ joinRoom
\* The setInterval callback iterates over the room objects it took from
\* Object.entries(rooms): when the table entry of a room it has yet to visit
\* is replaced, the callback still holds the replaced object.
orphaned(sw, rm, c) ==
    IF /\ rm[c].present
       /\ \E i \in 1..Len(sw.todo) : sw.todo[i] = c
       /\ ~sw.orph[c].present
    THEN [sw EXCEPT !.orph[c] = rm[c]]
    ELSE sw

\* The first joinRoom handler from "if (!roomInfo) { create }" on: create the
\* room when the handler's roomInfo is empty, join, reconcile, notify, and
\* start the replay.  rm, ad, ur, o, q: the room table, live sets, userRooms,
\* emissions and command queue as the handler has left them so far.
joinTail(s, c, rm, ad, ur, o, q, found) ==
    LET rm1 == IF found THEN rm
               ELSE [rm EXCEPT ![c] = [present |-> TRUE, lastActive |-> now, users |-> 0,
                                       creatorId |-> s, drawingEnabled |-> BTrue]]
        q1 == IF ~found /\ isRedisAvailable
              THEN Append(q, Cmd("ff.hset", s, c, "join")) ELSE q
        roomInfo == rm1[c]
        ad2 == [ad EXCEPT ![c] = @ \cup {s}]
        u2 == updateRoomInfo(rm1, ad2, conn, c)
        actualUsers == size(ad2, c)
        o2 == o \o u2.out
                \o toSocket(conn, s, [Msg(c, "roomJoined") EXCEPT
                                         !.users = actualUsers,
                                         !.isCreator = (s = roomInfo.creatorId),
                                         !.enabled = roomInfo.drawingEnabled])
                \o toOthers(ad2, conn, c, s, [Msg(c, "userJoined") EXCEPT
                                                 !.from = s, !.users = actualUsers])
    IN  [rooms |-> u2.rooms,
         adapter |-> ad2,
         userRooms |-> [ur EXCEPT ![s] = c],
         cmdq |-> IF isRedisAvailable
                  THEN Append(q1, Cmd("join.points", s, c, None)) ELSE q1,
         out |-> IF isRedisAvailable
                 THEN o2
                 ELSE o2 \o toSocket(conn, s, Msg(c, "loadDrawing"))
                         \o toSocket(conn, s, Msg(c, "loadImages")),
         sweep |-> IF found THEN sweep ELSE orphaned(sweep, rm, c)]

\* the assignments of a join that went through joinTail
joined(s, c, j) ==
    /\ rooms' = j.rooms
    /\ adapter' = j.adapter
    /\ userRooms' = j.userRooms
    /\ currentRoom' = [currentRoom EXCEPT ![s] = c]
    /\ cmdq' = j.cmdq
    /\ out' = j.out
    /\ sweep' = j.sweep

\* The second joinRoom handler (the one that sends usersList) reads the
\* undeclared name roomInfo as soon as the room's live set exists: the
\* ReferenceError rejects the promise of the async handler, nothing handles
\* it, and Node.js 16 (src/Dockerfile) ends the process.  Memory, connections
\* and suspended handlers are gone; what the first handler had emitted may or
\* may not have left the process.
exit(o) ==
    /\ proc' = "exited"
    /\ rooms' = [c \in Codes |-> NoRoom]
    /\ adapter' = [c \in Codes |-> {}]
    /\ conn' = [s \in Sockets |-> IF conn[s] = "new" THEN "new" ELSE "closed"]
    /\ currentRoom' = [s \in Sockets |-> None]
    /\ userRooms' = [s \in Sockets |-> None]
    /\ cmdq' = <<>>
    /\ sweep' = NoSweep
    /\ out' \in {o, <<>>}

\* socket.on('joinRoom'): the first handler up to its first await, then the
\* second handler
JoinRoom(s, c) ==
    /\ proc = "running"
    /\ conn[s] = "open"
    /\ Len(cmdq) < MaxQ
    /\ ev' = Ev("joinRoom", s, c, None)
    /\ LET old == currentRoom[s]
           ad1 == IF old # None THEN [adapter EXCEPT ![old] = @ \ {s}] ELSE adapter
           u1 == IF old # None THEN updateRoomInfo(rooms, ad1, conn, old)
                 ELSE [rooms |-> rooms, out |-> <<>>]
           o1 == IF old # None
                 THEN u1.out \o toOthers(ad1, conn, old, s,
                                         [Msg(old, "userLeft") EXCEPT !.from = s])
                 ELSE <<>>
           ur1 == IF old # None THEN [userRooms EXCEPT ![s] = None] ELSE userRooms
           j == joinTail(s, c, u1.rooms, ad1, ur1, o1, cmdq, u1.rooms[c].present)
       IN  IF ~u1.rooms[c].present /\ isRedisAvailable
           THEN IF ad1[c] = {}
                THEN /\ cmdq' = Append(cmdq, Cmd("join.exists", s, c, None))
                     /\ rooms' = u1.rooms
                     /\ adapter' = ad1
                     /\ userRooms' = ur1
                     /\ out' = o1
                     /\ UNCHANGED <<currentRoom, conn, proc, sweep>>
                ELSE exit(o1)
           ELSE exit(j.out)
    /\ UNCHANGED clientVars
    /\ UNCHANGED <<redis, hash, points, images, header, now, accepted, live>>

\* resumed after `await redisClient.exists(roomKey)`
JoinAfterExists ==
    /\ proc = "running"
    /\ cmdq # <<>>
    /\ Head(cmdq).k = "join.exists"
    /\ LET h == Head(cmdq) IN
       /\ ev' = Ev(h.k, h.s, h.c, None)
       /\ IF isRedisAvailable /\ hash[h.c].present
          THEN /\ cmdq' = Append(Tail(cmdq), Cmd("join.hgetall", h.s, h.c, None))
               /\ out' = <<>>
               /\ UNCHANGED <<rooms, adapter, currentRoom, userRooms, sweep>>
          ELSE joined(h.s, h.c, joinTail(h.s, h.c, rooms, adapter, userRooms, <<>>,
                                         Tail(cmdq), FALSE))
    /\ UNCHANGED <<proc, clientVars>>
    /\ UNCHANGED <<redis, hash, points, images, conn, header, now, accepted, live>>

\* resumed after `await redisClient.hGetAll(roomKey)`
JoinAfterHGetAll ==
    /\ proc = "running"
    /\ cmdq # <<>>
    /\ Head(cmdq).k = "join.hgetall"
    /\ LET h == Head(cmdq) IN
       /\ ev' = Ev(h.k, h.s, h.c, None)
       /\ IF isRedisAvailable
          THEN joined(h.s, h.c,
                      [joinTail(h.s, h.c, [rooms EXCEPT ![h.c] = roomData(hash[h.c])],
                                adapter, userRooms, <<>>, Tail(cmdq), TRUE)
                       EXCEPT !.sweep = orphaned(sweep, rooms, h.c)])
          ELSE joined(h.s, h.c, joinTail(h.s, h.c, rooms, adapter, userRooms, <<>>,
                                         Tail(cmdq), FALSE))
    /\ UNCHANGED <<proc, clientVars>>
    /\ UNCHANGED <<redis, hash, points, images, conn, header, now, accepted, live>>

\* const drawingPoints = pointsData.map(JSON.parse ...).filter(... !== null)
drawingPoints(c) == parseList(points[c])

\* resumed after `await redisClient.lRange(pointsKey, 0, -1)`
JoinAfterPoints ==
    /\ proc = "running"
    /\ cmdq # <<>>
    /\ Head(cmdq).k = "join.points"
    /\ LET h == Head(cmdq) IN
       /\ ev' = Ev(h.k, h.s, h.c, None)
       /\ IF isRedisAvailable
          THEN /\ out' = toSocket(conn, h.s, [Msg(h.c, "loadDrawing") EXCEPT
                                                !.data = drawingPoints(h.c)])
               /\ cmdq' = Append(Tail(cmdq), Cmd("join.images", h.s, h.c, None))
          ELSE /\ out' = toSocket(conn, h.s, Msg(h.c, "loadDrawing"))
                           \o toSocket(conn, h.s, Msg(h.c, "loadImages"))
               /\ cmdq' = Tail(cmdq)
    /\ UNCHANGED <<proc, sweep, clientVars>>
    /\ UNCHANGED <<redis, rooms, hash, points, images, adapter, conn, header,
                   currentRoom, userRooms, now, accepted, live>>

\* resumed after `await redisClient.lRange(imagesKey, 0, -1)`
JoinAfterImages ==
    /\ proc = "running"
    /\ cmdq # <<>>
    /\ Head(cmdq).k = "join.images"
    /\ LET h == Head(cmdq)
           imgs == parseList(images[h.c]) IN
       /\ ev' = Ev(h.k, h.s, h.c, None)
       /\ cmdq' = Tail(cmdq)
       /\ out' = IF isRedisAvailable
                 THEN IF Len(imgs) > 0
                      THEN toSocket(conn, h.s, [Msg(h.c, "loadImages") EXCEPT !.data = imgs])
                      ELSE <<>>
                 ELSE toSocket(conn, h.s, Msg(h.c, "loadImages"))
    /\ UNCHANGED <<proc, sweep, clientVars>>
    /\ UNCHANGED <<redis, rooms, hash, points, images, adapter, conn, header,
                   currentRoom, userRooms, now, accepted, live>>

\* the fire-and-forget redisClient.hSet(roomKey, {...}).then(expire) of the
\* joinRoom handler (d = "join") and of GET /room/:roomCode (d = "page")
StoreRoomHSet ==
    /\ proc = "running"
    /\ cmdq # <<>>
    /\ Head(cmdq).k = "ff.hset"
    /\ LET h == Head(cmdq) IN
       /\ ev' = Ev(h.k, h.s, h.c, h.d)
       /\ IF isRedisAvailable
          THEN /\ hash' = [hash EXCEPT ![h.c] =
                             IF h.d = "join"
                             THEN [@ EXCEPT !.present = TRUE, !.lastActive = now, !.users = 0,
                                            !.creatorId = h.s, !.drawingEnabled = STrue]
                             ELSE [@ EXCEPT !.present = TRUE, !.lastActive = now, !.users = 0]]
               /\ cmdq' = Append(Tail(cmdq), Cmd("ff.expire", h.s, h.c, h.d))
          ELSE /\ cmdq' = Tail(cmdq)
               /\ UNCHANGED hash
    /\ out' = <<>>
    /\ UNCHANGED <<proc, sweep, clientVars>>
    /\ UNCHANGED <<redis, rooms, points, images, adapter, conn, header, currentRoom,
                   userRooms, now, accepted, live>>

StoreRoomExpire ==
    /\ proc = "running"
    /\ cmdq # <<>>
    /\ Head(cmdq).k = "ff.expire"
    /\ LET h == Head(cmdq) IN
       /\ ev' = Ev(h.k, h.s, h.c, h.d)
       /\ cmdq' = Tail(cmdq)
       /\ hash' = IF isRedisAvailable /\ hash[h.c].present
                  THEN [hash EXCEPT ![h.c].ttl = "24h"] ELSE hash
    /\ out' = <<>>
    /\ UNCHANGED <<proc, sweep, clientVars>>
    /\ UNCHANGED <<redis, rooms, points, images, adapter, conn, header, currentRoom,
                   userRooms, now, accepted, live>>

\* --------------------------------------------------------- disconnect
\* socket.io takes the socket out of every live set, then runs the two
\* disconnect handlers; what the client had emitted and the server has not
\* handled goes with the connection
Disconnect(s) ==
    /\ proc = "running"
    /\ conn[s] = "open"
    /\ conn' = [conn EXCEPT ![s] = "closed"]
    /\ LET c == currentRoom[s]
           ad1 == [r \in Codes |-> adapter[r] \ {s}]
           u1 == IF c # None THEN updateRoomInfo(rooms, ad1, conn', c)
                 ELSE [rooms |-> rooms, out |-> <<>>]
       IN  /\ adapter' = ad1
           /\ ev' = Ev("disconnect", s, c, None)
           /\ rooms' = u1.rooms
           /\ userRooms' = IF c # None THEN [userRooms EXCEPT ![s] = None] ELSE userRooms
           /\ out' = IF c # None
                     THEN u1.out \o toOthers(ad1, conn', c, s,
                                             [Msg(c, "userLeft") EXCEPT
                                                 !.from = s, !.users = size(ad1, c)])
                                \o (IF u1.rooms[c].present /\ ad1[c] # {}
                                    THEN toRoom(ad1, conn', c, Msg(c, "usersList"))
                                    ELSE <<>>)
                     ELSE <<>>
           /\ upq' = [upq EXCEPT ![s] = <<>>]
    /\ UNCHANGED <<proc, sweep, downq, imageChunks, canvas, sent, seen>>
    /\ UNCHANGED <<redis, hash, points, images, header, currentRoom, cmdq, now,
                   accepted, live>>


\* ------------------------------------------- ping and requestRoomInfo
\* socket.on('ping'): the cached count of the room in userRooms is set to the
\* size of the live set; the answer goes to the callback or as a pong event
Ping(s, hasCallback) ==
    /\ proc = "running"
    /\ conn[s] = "open"
    /\ LET roomCode == userRooms[s]
           roomUsers == IF roomCode # None THEN size(adapter, roomCode) ELSE 0
       IN  /\ ev' = Ev("ping", s, roomCode, None)
           /\ rooms' = IF roomCode # None /\ rooms[roomCode].present
                          /\ rooms[roomCode].users # roomUsers
                       THEN [rooms EXCEPT ![roomCode].users = roomUsers]
                       ELSE rooms
           /\ out' = toSocket(conn, s, [Msg(roomCode, IF hasCallback THEN "ping.ack" ELSE "pong")
                                           EXCEPT !.users = roomUsers])
    /\ UNCHANGED <<proc, sweep, clientVars>>
    /\ UNCHANGED <<redis, hash, points, images, adapter, conn, header, currentRoom,
                   userRooms, cmdq, now, accepted, live>>

\* socket.on('requestRoomInfo')
RequestRoomInfo(s) ==
    /\ proc = "running"
    /\ conn[s] = "open"
    /\ LET roomCode == userRooms[s] IN
       /\ ev' = Ev("requestRoomInfo", s, roomCode, None)
       /\ IF roomCode # None
          THEN /\ rooms' = IF rooms[roomCode].present
                           THEN [rooms EXCEPT ![roomCode].users = size(adapter, roomCode)]
                           ELSE rooms
               /\ out' = toSocket(conn, s, [Msg(roomCode, "roomInfo") EXCEPT
                                               !.users = size(adapter, roomCode)])
          ELSE /\ out' = <<>>
               /\ UNCHANGED rooms
    /\ UNCHANGED <<proc, sweep, clientVars>>
    /\ UNCHANGED <<redis, hash, points, images, adapter, conn, header, currentRoom,
                   userRooms, cmdq, now, accepted, live>>

\* ------------------------------------------------------- toggleDrawing
\* socket.on('toggleDrawing'), up to the await of hSet
ToggleDrawing(s, enabled) ==
    /\ proc = "running"
    /\ conn[s] = "open"
    /\ Len(cmdq) < MaxQ
    /\ LET c == currentRoom[s] IN
       /\ ev' = Ev("toggleDrawing", s, c, enabled)
       /\ IF c = None
          THEN /\ out' = toSocket(conn, s, Msg(c, "error"))
               /\ UNCHANGED <<rooms, cmdq>>
          ELSE IF ~rooms[c].present \/ ~isCreator(s, rooms[c])
          THEN /\ out' = toSocket(conn, s, Msg(c, "error"))
               /\ UNCHANGED <<rooms, cmdq>>
          ELSE /\ rooms' = [rooms EXCEPT ![c].drawingEnabled = enabled]
               /\ IF isRedisAvailable
                  THEN /\ cmdq' = Append(cmdq, Cmd("toggle.hset", s, c, enabled))
                       /\ out' = <<>>
                  ELSE /\ cmdq' = cmdq
                       /\ out' = toRoom(adapter, conn, c,
                                        [Msg(c, "drawingPermissionChanged") EXCEPT
                                            !.enabled = enabled, !.from = s])
    /\ UNCHANGED <<proc, sweep, clientVars>>
    /\ UNCHANGED <<redis, hash, points, images, adapter, conn, header, currentRoom,
                   userRooms, now, accepted, live>>

\* resumed after `await redisClient.hSet(roomKey, 'drawingEnabled', ...)`;
\* a rejected hSet lands in the handler's catch
ToggleAfterHSet ==
    /\ proc = "running"
    /\ cmdq # <<>>
    /\ Head(cmdq).k = "toggle.hset"
    /\ LET h == Head(cmdq)
           c == currentRoom[h.s] IN
       /\ ev' = Ev(h.k, h.s, h.c, h.d)
       /\ cmdq' = Tail(cmdq)
       /\ IF isRedisAvailable
          THEN /\ hash' = [hash EXCEPT ![h.c].present = TRUE,
                                       ![h.c].drawingEnabled =
                                           IF h.d = BTrue THEN STrue ELSE SFalse]
               /\ out' = toRoom(adapter, conn, c,
                                [Msg(c, "drawingPermissionChanged") EXCEPT
                                    !.enabled = h.d, !.from = h.s])
          ELSE /\ out' = toSocket(conn, h.s, Msg(c, "error"))
               /\ UNCHANGED hash
    /\ UNCHANGED <<proc, sweep, clientVars>>
    /\ UNCHANGED <<redis, rooms, points, images, adapter, conn, header, currentRoom,
                   userRooms, now, accepted, live>>

\* ---------------------------------------------------------------- draw
\* the permission check of socket.on('draw'): the stroke passes
drawAllowed(s, r) == ~(r.drawingEnabled = BFalse /\ s # r.creatorId)

\* socket.to(currentRoom).emit('draw', data)
relayDraw(s, d) ==
    toOthers(adapter, conn, currentRoom[s], s,
             [Msg(currentRoom[s], "draw") EXCEPT !.from = s, !.data = <<d>>])

\* socket.on('draw'), up to the await of saveDrawingPoint
Draw(s, d) ==
    /\ proc = "running"
    /\ conn[s] = "open"
    /\ Len(cmdq) < MaxQ
    /\ LET c == currentRoom[s] IN
       /\ ev' = Ev("draw", s, c, d)
       /\ IF c = None
          THEN /\ out' = <<>>
               /\ UNCHANGED <<cmdq, accepted>>
          ELSE IF ~rooms[c].present \/ ~drawAllowed(s, rooms[c])
          THEN /\ out' = <<>>
               /\ UNCHANGED <<cmdq, accepted>>
          ELSE /\ Len(accepted[c]) < MaxLog
               /\ accepted' = [accepted EXCEPT ![c] = Append(@,
                      [d |-> d, st |-> IF isRedisAvailable THEN "pending" ELSE "lost"])]
               /\ IF isRedisAvailable
                  THEN /\ cmdq' = Append(cmdq, Cmd("draw.rpush", s, c, d))
                       /\ out' = <<>>
                  ELSE /\ cmdq' = cmdq
                       /\ out' = relayDraw(s, d)
    /\ UNCHANGED <<proc, sweep, clientVars>>
    /\ UNCHANGED <<redis, rooms, hash, points, images, adapter, conn, header,
                   currentRoom, userRooms, now, live>>

\* history: the oldest stroke of a room still waiting for its rPush is the one
\* the store answers next; st records how its save ended
answered(log, st) ==
    LET i == CHOOSE i \in 1..Len(log) :
                 /\ log[i].st = "pending"
                 /\ \A j \in 1..(i - 1) : log[j].st # "pending"
    IN [log EXCEPT ![i].st = st]

\* saveDrawingPoint resumed after `await redisClient.rPush(pointsKey, ...)`
DrawAfterRPush ==
    /\ proc = "running"
    /\ cmdq # <<>>
    /\ Head(cmdq).k = "draw.rpush"
    /\ LET h == Head(cmdq) IN
       /\ ev' = Ev(h.k, h.s, h.c, h.d)
       /\ IF isRedisAvailable
          THEN /\ points' = [points EXCEPT ![h.c] = Append(@, JSONstringify(h.d))]
               /\ cmdq' = Append(Tail(cmdq), Cmd("draw.expire", h.s, h.c, h.d))
               /\ out' = <<>>
               /\ accepted' = [accepted EXCEPT ![h.c] = answered(@, "saved")]
          ELSE /\ cmdq' = Tail(cmdq)
               /\ out' = relayDraw(h.s, h.d)
               /\ accepted' = [accepted EXCEPT ![h.c] = answered(@, "lost")]
               /\ UNCHANGED points
    /\ UNCHANGED <<proc, sweep, clientVars>>
    /\ UNCHANGED <<redis, rooms, hash, images, adapter, conn, header, currentRoom,
                   userRooms, now, live>>

\* saveDrawingPoint resumed after `await redisClient.expire(pointsKey, ...)`,
\* then the relay of the draw handler
DrawAfterExpire ==
    /\ proc = "running"
    /\ cmdq # <<>>
    /\ Head(cmdq).k = "draw.expire"
    /\ LET h == Head(cmdq) IN
       /\ ev' = Ev(h.k, h.s, h.c, h.d)
       /\ cmdq' = Tail(cmdq)
       /\ out' = relayDraw(h.s, h.d)
    /\ UNCHANGED <<proc, sweep, clientVars>>
    /\ UNCHANGED <<redis, rooms, hash, points, images, adapter, conn, header,
                   currentRoom, userRooms, now, accepted, live>>

\* --------------------------------------------------------- clearCanvas
\* socket.to(currentRoom).emit('clearCanvas')
relayClear(s) ==
    toOthers(adapter, conn, currentRoom[s], s,
             [Msg(currentRoom[s], "clearCanvas") EXCEPT !.from = s])

\* socket.on('clearCanvas'), up to the await in clearDrawingPoints
ClearCanvas(s) ==
    /\ proc = "running"
    /\ conn[s] = "open"
    /\ Len(cmdq) < MaxQ
    /\ LET c == currentRoom[s] IN
       /\ ev' = Ev("clearCanvas", s, c, None)
       /\ IF c = None
          THEN /\ out' = <<>>
               /\ UNCHANGED cmdq
          ELSE IF ~rooms[c].present \/ ~isCreator(s, rooms[c])
          THEN /\ out' = toSocket(conn, s, Msg(c, "error"))
               /\ UNCHANGED cmdq
          ELSE IF isRedisAvailable
          THEN /\ cmdq' = Append(cmdq, Cmd("clear.points", s, c, None))
               /\ out' = <<>>
          ELSE /\ cmdq' = cmdq
               /\ out' = relayClear(s)
    /\ UNCHANGED <<proc, sweep, clientVars>>
    /\ UNCHANGED <<redis, rooms, hash, points, images, adapter, conn, header,
                   currentRoom, userRooms, now, accepted, live>>

\* history: a cleared log forgets every stroke but those whose rPush the store
\* has yet to answer
stillPending(e) == e.st = "pending"

\* clearDrawingPoints resumed after `await redisClient.del(pointsKey)`, then
\* clearImages up to its await
ClearAfterPoints ==
    /\ proc = "running"
    /\ cmdq # <<>>
    /\ Head(cmdq).k = "clear.points"
    /\ LET h == Head(cmdq) IN
       /\ ev' = Ev(h.k, h.s, h.c, None)
       /\ IF isRedisAvailable
          THEN /\ points' = [points EXCEPT ![h.c] = <<>>]
               /\ cmdq' = Append(Tail(cmdq), Cmd("clear.images", h.s, currentRoom[h.s], None))
               /\ out' = <<>>
               /\ accepted' = [accepted EXCEPT ![h.c] = SelectSeq(@, stillPending)]
          ELSE /\ cmdq' = Tail(cmdq)
               /\ out' = relayClear(h.s)
               /\ UNCHANGED <<points, accepted>>
    /\ UNCHANGED <<proc, sweep, clientVars>>
    /\ UNCHANGED <<redis, rooms, hash, images, adapter, conn, header, currentRoom,
                   userRooms, now, live>>

\* clearImages resumed after `await redisClient.del(imagesKey)`, then the relay
ClearAfterImages ==
    /\ proc = "running"
    /\ cmdq # <<>>
    /\ Head(cmdq).k = "clear.images"
    /\ LET h == Head(cmdq) IN
       /\ ev' = Ev(h.k, h.s, h.c, None)
       /\ cmdq' = Tail(cmdq)
       /\ images' = IF isRedisAvailable THEN [images EXCEPT ![h.c] = <<>>] ELSE images
       /\ live' = IF isRedisAvailable THEN [live EXCEPT ![h.c] = {}] ELSE live
       /\ out' = relayClear(h.s)
    /\ UNCHANGED <<proc, sweep, clientVars>>
    /\ UNCHANGED <<redis, rooms, hash, points, adapter, conn, header, currentRoom,
                   userRooms, now, accepted>>


\* ---------------------------------------------------------- pasteImage
\* the commands of paste handlers that are still to store an image of room c
pastesInFlight(c) ==
    Cardinality({i \in 1..Len(cmdq) : cmdq[i].k = "paste.rpush" /\ cmdq[i].c = c})

\* socket.on('pasteImage'), up to the await in saveImage
PasteImage(s, d) ==
    /\ proc = "running"
    /\ conn[s] = "open"
    /\ Len(cmdq) < MaxQ
    /\ sent' = sent \cup {d}
    /\ UNCHANGED <<upq, downq, imageChunks, canvas, seen>>
    /\ LET c == currentRoom[s] IN
       /\ ev' = Ev("pasteImage", s, c, d)
       /\ IF c = None
          THEN /\ out' = toSocket(conn, s, Msg(c, "error"))
               /\ UNCHANGED cmdq
          ELSE IF isRedisAvailable
          THEN /\ Len(images[c]) + pastesInFlight(c) < MaxImages
               /\ cmdq' = Append(cmdq, Cmd("paste.rpush", s, c, d))
               /\ out' = <<>>
          ELSE /\ out' = toSocket(conn, s, Msg(c, "error"))
               /\ UNCHANGED cmdq
    /\ UNCHANGED <<proc, sweep>>
    /\ UNCHANGED <<redis, rooms, hash, points, images, adapter, conn, header,
                   currentRoom, userRooms, now, accepted, live>>

\* saveImage resumed after `await redisClient.rPush(imagesKey, ...)`
PasteAfterRPush ==
    /\ proc = "running"
    /\ cmdq # <<>>
    /\ Head(cmdq).k = "paste.rpush"
    /\ LET h == Head(cmdq) IN
       /\ ev' = Ev(h.k, h.s, h.c, h.d)
       /\ IF isRedisAvailable
          THEN /\ images' = [images EXCEPT ![h.c] = Append(@, JSONstringify(h.d))]
               /\ cmdq' = Append(Tail(cmdq), Cmd("paste.expire", h.s, h.c, h.d))
               /\ out' = <<>>
          ELSE /\ cmdq' = Tail(cmdq)
               /\ out' = toSocket(conn, h.s, Msg(currentRoom[h.s], "error"))
               /\ UNCHANGED images
    /\ UNCHANGED <<proc, sweep, clientVars>>
    /\ UNCHANGED <<redis, rooms, hash, points, adapter, conn, header, currentRoom,
                   userRooms, now, accepted, live>>

\* saveImage resumed after `await redisClient.expire(imagesKey, ...)`, then
\* the `if (saved)` of the pasteImage handler
PasteAfterExpire ==
    /\ proc = "running"
    /\ cmdq # <<>>
    /\ Head(cmdq).k = "paste.expire"
    /\ LET h == Head(cmdq)
           c == currentRoom[h.s]
           relay == toOthers(adapter, conn, c, h.s,
                             [Msg(c, "pasteImage") EXCEPT !.from = h.s, !.data = <<h.d>>]) IN
       /\ ev' = Ev(h.k, h.s, h.c, h.d)
       /\ cmdq' = Tail(cmdq)
       /\ IF isRedisAvailable
          THEN /\ out' = relay
               /\ live' = IF relay # <<>> THEN [live EXCEPT ![c] = @ \cup {h.d}] ELSE live
          ELSE /\ out' = toSocket(conn, h.s, Msg(c, "error"))
               /\ UNCHANGED live
    /\ UNCHANGED <<proc, sweep, clientVars>>
    /\ UNCHANGED <<redis, rooms, hash, points, images, adapter, conn, header,
                   currentRoom, userRooms, now, accepted>>

\* ------------------------------------- requestDrawingData, requestImageData
\* socket.on('requestDrawingData'), up to the await in getDrawingPoints
RequestDrawingData(s) ==
    /\ proc = "running"
    /\ conn[s] = "open"
    /\ Len(cmdq) < MaxQ
    /\ LET c == currentRoom[s] IN
       /\ ev' = Ev("requestDrawingData", s, c, None)
       /\ IF c = None
          THEN /\ out' = <<>>
               /\ UNCHANGED cmdq
          ELSE IF isRedisAvailable
          THEN /\ cmdq' = Append(cmdq, Cmd("reqd.lrange", s, c, None))
               /\ out' = <<>>
          ELSE /\ out' = toSocket(conn, s, Msg(c, "loadDrawing"))
               /\ UNCHANGED cmdq
    /\ UNCHANGED <<proc, sweep, clientVars>>
    /\ UNCHANGED <<redis, rooms, hash, points, images, adapter, conn, header,
                   currentRoom, userRooms, now, accepted, live>>

\* getDrawingPoints resumed after its lRange, then socket.emit('loadDrawing')
RequestDrawingAfterLRange ==
    /\ proc = "running"
    /\ cmdq # <<>>
    /\ Head(cmdq).k = "reqd.lrange"
    /\ LET h == Head(cmdq) IN
       /\ ev' = Ev(h.k, h.s, h.c, None)
       /\ cmdq' = Tail(cmdq)
       /\ out' = toSocket(conn, h.s,
                          [Msg(h.c, "loadDrawing") EXCEPT !.data =
                              IF isRedisAvailable THEN parseList(points[h.c]) ELSE <<>>])
    /\ UNCHANGED <<proc, sweep, clientVars>>
    /\ UNCHANGED <<redis, rooms, hash, points, images, adapter, conn, header,
                   currentRoom, userRooms, now, accepted, live>>

\* socket.on('requestImageData'), up to the await in getImages
RequestImageData(s) ==
    /\ proc = "running"
    /\ conn[s] = "open"
    /\ Len(cmdq) < MaxQ
    /\ LET c == currentRoom[s] IN
       /\ ev' = Ev("requestImageData", s, c, None)
       /\ IF c = None
          THEN /\ out' = toSocket(conn, s, Msg(c, "error"))
               /\ UNCHANGED cmdq
          ELSE IF isRedisAvailable
          THEN /\ cmdq' = Append(cmdq, Cmd("reqi.lrange", s, c, None))
               /\ out' = <<>>
          ELSE /\ out' = toSocket(conn, s, Msg(c, "loadImages"))
               /\ UNCHANGED cmdq
    /\ UNCHANGED <<proc, sweep, clientVars>>
    /\ UNCHANGED <<redis, rooms, hash, points, images, adapter, conn, header,
                   currentRoom, userRooms, now, accepted, live>>

\* getImages resumed after its lRange, then socket.emit('loadImages')
RequestImageAfterLRange ==
    /\ proc = "running"
    /\ cmdq # <<>>
    /\ Head(cmdq).k = "reqi.lrange"
    /\ LET h == Head(cmdq) IN
       /\ ev' = Ev(h.k, h.s, h.c, None)
       /\ cmdq' = Tail(cmdq)
       /\ out' = toSocket(conn, h.s,
                          [Msg(h.c, "loadImages") EXCEPT !.data =
                              IF isRedisAvailable THEN parseList(images[h.c]) ELSE <<>>])
    /\ UNCHANGED <<proc, sweep, clientVars>>
    /\ UNCHANGED <<redis, rooms, hash, points, images, adapter, conn, header,
                   currentRoom, userRooms, now, accepted, live>>

\* ------------------------------------------------- GET /room/:roomCode
\* the room page route creates an unknown room in memory, without creatorId
\* and drawingEnabled, and stores it without waiting
RoomPage(c) ==
    /\ proc = "running"
    /\ ~rooms[c].present
    /\ Len(cmdq) < MaxQ
    /\ rooms' = [rooms EXCEPT ![c] = [present |-> TRUE, lastActive |-> now, users |-> 0,
                                      creatorId |-> Undef, drawingEnabled |-> Undef]]
    /\ cmdq' = IF isRedisAvailable THEN Append(cmdq, Cmd("ff.hset", None, c, "page"))
               ELSE cmdq
    /\ out' = <<>>
    /\ ev' = Ev("GET /room", None, c, None)
    /\ UNCHANGED <<proc, sweep, clientVars>>
    /\ UNCHANGED <<redis, hash, points, images, adapter, conn, header, currentRoom,
                   userRooms, now, accepted, live>>

\* ------------------------------------------------ GET /api/create-room
\* createRoom(roomCode, creatorId), up to its await: the room table entry is
\* written whatever it held
createRoom(c, tok, q) ==
    /\ rooms' = [rooms EXCEPT ![c] = [present |-> TRUE, lastActive |-> now, users |-> 0,
                                      creatorId |-> tok, drawingEnabled |-> BTrue]]
    /\ cmdq' = IF isRedisAvailable THEN Append(q, Cmd("api.hset", None, c, tok)) ELSE q
    /\ sweep' = orphaned(sweep, rooms, c)

\* createUniqueRoomCode samples a code that getRoomInfo does not find in
\* memory (a code found there is sampled again at once)
CreateRoomApi(c, tok) ==
    /\ proc = "running"
    /\ ~rooms[c].present
    /\ Len(cmdq) < MaxQ
    /\ IF isRedisAvailable
       THEN /\ cmdq' = Append(cmdq, Cmd("api.exists", None, c, tok))
            /\ UNCHANGED <<rooms, sweep>>
       ELSE createRoom(c, tok, cmdq)
    /\ out' = <<>>
    /\ ev' = Ev("GET /api/create-room", None, c, tok)
    /\ UNCHANGED <<proc, clientVars>>
    /\ UNCHANGED <<redis, hash, points, images, adapter, conn, header, currentRoom,
                   userRooms, now, accepted, live>>

\* getRoomInfo resumed after `await redisClient.exists(roomKey)`
ApiAfterExists ==
    /\ proc = "running"
    /\ cmdq # <<>>
    /\ Head(cmdq).k = "api.exists"
    /\ LET h == Head(cmdq) IN
       /\ ev' = Ev(h.k, None, h.c, h.d)
       /\ IF isRedisAvailable /\ hash[h.c].present
          THEN /\ cmdq' = Append(Tail(cmdq), Cmd("api.hgetall", None, h.c, h.d))
               /\ UNCHANGED <<rooms, sweep>>
          ELSE createRoom(h.c, h.d, Tail(cmdq))
    /\ out' = <<>>
    /\ UNCHANGED <<proc, clientVars>>
    /\ UNCHANGED <<redis, hash, points, images, adapter, conn, header, currentRoom,
                   userRooms, now, accepted, live>>

\* getRoomInfo resumed after `await redisClient.hGetAll(roomKey)`: the record is
\* cached and the code counts as taken, so the request does not create it
ApiAfterHGetAll ==
    /\ proc = "running"
    /\ cmdq # <<>>
    /\ Head(cmdq).k = "api.hgetall"
    /\ LET h == Head(cmdq) IN
       /\ ev' = Ev(h.k, None, h.c, h.d)
       /\ IF isRedisAvailable
          THEN /\ rooms' = [rooms EXCEPT ![h.c] = roomData(hash[h.c])]
               /\ cmdq' = Tail(cmdq)
               /\ sweep' = orphaned(sweep, rooms, h.c)
          ELSE createRoom(h.c, h.d, Tail(cmdq))
    /\ out' = <<>>
    /\ UNCHANGED <<proc, clientVars>>
    /\ UNCHANGED <<redis, hash, points, images, adapter, conn, header, currentRoom,
                   userRooms, now, accepted, live>>

\* createRoom resumed after `await redisClient.hSet(roomKey, {...})`
ApiAfterHSet ==
    /\ proc = "running"
    /\ cmdq # <<>>
    /\ Head(cmdq).k = "api.hset"
    /\ LET h == Head(cmdq) IN
       /\ ev' = Ev(h.k, None, h.c, h.d)
       /\ IF isRedisAvailable
          THEN /\ hash' = [hash EXCEPT ![h.c] =
                             [@ EXCEPT !.present = TRUE, !.lastActive = now, !.users = 0,
                                       !.creatorId = h.d, !.drawingEnabled = STrue]]
               /\ cmdq' = Append(Tail(cmdq), Cmd("api.expire", None, h.c, h.d))
          ELSE /\ cmdq' = Tail(cmdq)
               /\ UNCHANGED hash
    /\ out' = <<>>
    /\ UNCHANGED <<proc, sweep, clientVars>>
    /\ UNCHANGED <<redis, rooms, points, images, adapter, conn, header, currentRoom,
                   userRooms, now, accepted, live>>

\* createRoom resumed after `await redisClient.expire(roomKey, 24 * 60 * 60)`
ApiAfterExpire ==
    /\ proc = "running"
    /\ cmdq # <<>>
    /\ Head(cmdq).k = "api.expire"
    /\ LET h == Head(cmdq) IN
       /\ ev' = Ev(h.k, None, h.c, h.d)
       /\ cmdq' = Tail(cmdq)
       /\ hash' = IF isRedisAvailable /\ hash[h.c].present
                  THEN [hash EXCEPT ![h.c].ttl = "24h"] ELSE hash
    /\ out' = <<>>
    /\ UNCHANGED <<proc, sweep, clientVars>>
    /\ UNCHANGED <<redis, rooms, points, images, adapter, conn, header, currentRoom,
                   userRooms, now, accepted, live>>

\* ------------------------------------------- createUniqueRoomCode loop
\* `while (exists)`: a sampled code found in memory makes getRoomInfo return
\* at once and the loop samples again without leaving the microtask queue, so
\* the next store call is for a code that is not in memory; when every code is
\* in memory the loop never ends and no other callback runs again
codeSearch(rm, q, tok) ==
    IF \A c \in Codes : rm[c].present
    THEN /\ proc' = "spinning"
         /\ rooms' = rm
         /\ cmdq' = q
         /\ UNCHANGED sweep
    ELSE /\ UNCHANGED proc
         /\ \E c \in Codes :
               /\ ~rm[c].present
               /\ IF isRedisAvailable
                  THEN /\ rooms' = rm
                       /\ cmdq' = Append(q, Cmd("code.exists", None, c, tok))
                       /\ UNCHANGED sweep
                  ELSE createRoom(c, tok, q)

\* GET /api/create-room: createUniqueRoomCode up to its first store call
CreateUniqueRoomCode(tok) ==
    /\ proc = "running"
    /\ Len(cmdq) < MaxQ
    /\ ev' = Ev("GET /api/create-room", None, None, tok)
    /\ out' = <<>>
    /\ codeSearch(rooms, cmdq, tok)
    /\ UNCHANGED clientVars
    /\ UNCHANGED <<redis, hash, points, images, adapter, conn, header, currentRoom,
                   userRooms, now, accepted, live>>

\* getRoomInfo resumed after `await redisClient.exists(roomKey)`: without a
\* record, or on a store error, it returns null and the loop ends
CodeAfterExists ==
    /\ proc = "running"
    /\ cmdq # <<>>
    /\ Head(cmdq).k = "code.exists"
    /\ LET h == Head(cmdq) IN
       /\ ev' = Ev(h.k, None, h.c, h.d)
       /\ IF isRedisAvailable /\ hash[h.c].present
          THEN /\ cmdq' = Append(Tail(cmdq), Cmd("code.hgetall", None, h.c, h.d))
               /\ UNCHANGED <<rooms, sweep>>
          ELSE createRoom(h.c, h.d, Tail(cmdq))
    /\ out' = <<>>
    /\ UNCHANGED <<proc, clientVars>>
    /\ UNCHANGED <<redis, hash, points, images, adapter, conn, header, currentRoom,
                   userRooms, now, accepted, live>>

\* getRoomInfo resumed after `await redisClient.hGetAll(roomKey)`: the record
\* is cached, exists is true and the loop samples again
CodeAfterHGetAll ==
    /\ proc = "running"
    /\ cmdq # <<>>
    /\ Head(cmdq).k = "code.hgetall"
    /\ LET h == Head(cmdq) IN
       /\ ev' = Ev(h.k, None, h.c, h.d)
       /\ IF isRedisAvailable
          THEN codeSearch([rooms EXCEPT ![h.c] = roomData(hash[h.c])], Tail(cmdq), h.d)
          ELSE /\ createRoom(h.c, h.d, Tail(cmdq))
               /\ UNCHANGED proc
    /\ out' = <<>>
    /\ UNCHANGED clientVars
    /\ UNCHANGED <<redis, hash, points, images, adapter, conn, header, currentRoom,
                   userRooms, now, accepted, live>>

\* ---------------------------------------------------------- key expiry
\* The store removes the key room:<code> when its time to live has run out
\* (the store's own timer, at any moment after expire was called).  The
\* subscription to the expired events is set up by setupRedisExpireMonitoring,
\* which nothing calls: no callback of the process runs and the room table
\* stays as it is.
KeyExpired(c) ==
    /\ proc = "running"
    /\ redis # "none"
    /\ hash[c].present
    /\ hash[c].ttl # "none"
    /\ hash' = [hash EXCEPT ![c] = NoKey]
    /\ ev' = Ev("expired", None, c, None)
    /\ out' = <<>>
    /\ UNCHANGED <<proc, sweep, clientVars>>
    /\ UNCHANGED <<redis, rooms, points, images, adapter, conn, header, currentRoom,
                   userRooms, cmdq, now, accepted, live>>

\* the expired-key callback of setupRedisExpireMonitoring as it would run for
\* the key room:<c>:<k> if the process had subscribed it
ListExpiredNotified(c, k) ==
    /\ proc = "running"
    /\ redis # "none"
    /\ IF k = "points" THEN points[c] # <<>> ELSE images[c] # <<>>
    /\ points' = IF k = "points" THEN [points EXCEPT ![c] = <<>>] ELSE points
    /\ images' = IF k = "images" THEN [images EXCEPT ![c] = <<>>] ELSE images
    /\ rooms' = [rooms EXCEPT ![c] = NoRoom]
    /\ ev' = Ev("expired", None, c, k)
    /\ out' = <<>>
    /\ UNCHANGED <<proc, sweep, clientVars>>
    /\ UNCHANGED <<redis, hash, adapter, conn, header, currentRoom,
                   userRooms, cmdq, now, accepted, live>>

\* The store removes the list key room:<c>:points or room:<c>:images when its
\* time to live (set by the expire call after each push, 258 and 319) has run
\* out.  As for the room key, no callback of the process runs.
ListExpired(c, k) ==
    /\ proc = "running"
    /\ redis # "none"
    /\ IF k = "points" THEN points[c] # <<>> ELSE images[c] # <<>>
    /\ points' = IF k = "points" THEN [points EXCEPT ![c] = <<>>] ELSE points
    /\ images' = IF k = "images" THEN [images EXCEPT ![c] = <<>>] ELSE images
    /\ ev' = Ev("expired", None, c, k)
    /\ out' = <<>>
    /\ UNCHANGED <<proc, sweep, clientVars>>
    /\ UNCHANGED <<redis, rooms, hash, adapter, conn, header, currentRoom,
                   userRooms, cmdq, now, accepted, live>>

\* ------------------------------------------------------------- sweeper
\* Object.entries(rooms)
CodeSeq == <<"r1", "r2">>
entries(rm) == SelectSeq(CodeSeq, LAMBDA c : rm[c].present)

\* 60 * 60 * 1000 ms, in the unit of `now`
Hour == 1

\* io.to(roomCode).emit('userCountUpdated', { users: actualUsers })
userCountUpdated(c, n) ==
    toRoom(adapter, conn, c, [Msg(c, "userCountUpdated") EXCEPT !.users = n])

\* The callback from the room it visits next up to its next await: the rest of
\* the reconcile loop, then the eviction loop over a fresh Object.entries.
\* With redisClient null the first store call of a try block throws at once.
\* st: phase, rooms still to visit, replaced room objects, the room table, the
\* emissions so far, and the store command the callback stops at.
RECURSIVE runSweep(_)
runSweep(st) ==
    IF st.todo = <<>>
    THEN IF st.phase = "reconcile"
         THEN runSweep([st EXCEPT !.phase = "evict", !.todo = entries(st.rooms),
                                  !.orph = NoSweep.orph])
         ELSE [st EXCEPT !.phase = "idle", !.orph = NoSweep.orph]
    ELSE LET c == Head(st.todo)
             room == IF st.orph[c].present THEN st.orph[c] ELSE st.rooms[c]
             actualUsers == size(adapter, c)
             rest == [st EXCEPT !.todo = Tail(@), !.orph[c] = NoRoom]
         IN  IF st.phase = "reconcile"
             THEN IF room.users = actualUsers
                  THEN runSweep(rest)
                  ELSE LET upd == IF st.orph[c].present THEN rest
                                  ELSE [rest EXCEPT !.rooms[c].users = actualUsers]
                       IN  IF redis = "none"
                           THEN runSweep([upd EXCEPT !.out = @ \o userCountUpdated(c, actualUsers)])
                           ELSE [upd EXCEPT !.cmd = <<Cmd("sweep.exists", None, c, actualUsers)>>]
             ELSE IF room.users <= 0 /\ now - room.lastActive > Hour
                  THEN IF redis = "none"
                       THEN runSweep(rest)
                       ELSE [rest EXCEPT !.cmd = <<Cmd("sweep.del.room", None, c, None)>>]
                  ELSE runSweep(rest)

\* the callback resumed with room table rm and emissions o
resumeSweep(rm, o) ==
    runSweep([phase |-> sweep.phase, todo |-> sweep.todo, orph |-> sweep.orph,
              rooms |-> rm, out |-> o, cmd |-> <<>>])

\* the assignments of a step of the callback
sweepTo(st, q) ==
    /\ sweep' = [phase |-> st.phase, todo |-> st.todo, orph |-> st.orph]
    /\ rooms' = st.rooms
    /\ out' = st.out
    /\ cmdq' = q \o st.cmd

\* setInterval(async () => {...}, 60000) fires
Sweep ==
    /\ proc = "running"
    /\ sweep.phase = "idle"
    /\ entries(rooms) # <<>>
    /\ Len(cmdq) < 2 * MaxQ
    /\ ev' = Ev("sweep", None, None, None)
    /\ sweepTo(runSweep([phase |-> "reconcile", todo |-> entries(rooms),
                         orph |-> NoSweep.orph, rooms |-> rooms, out |-> <<>>,
                         cmd |-> <<>>]), cmdq)
    /\ UNCHANGED <<proc, clientVars>>
    /\ UNCHANGED <<redis, hash, points, images, adapter, conn, header, currentRoom,
                   userRooms, now, accepted, live>>

\* resumed after `await redisClient.exists(roomKey)`
SweepAfterExists ==
    /\ proc = "running"
    /\ cmdq # <<>>
    /\ Head(cmdq).k = "sweep.exists"
    /\ LET h == Head(cmdq) IN
       /\ ev' = Ev(h.k, None, h.c, None)
       /\ IF isRedisAvailable /\ hash[h.c].present
          THEN /\ cmdq' = Append(Tail(cmdq), Cmd("sweep.hset.users", None, h.c, h.d))
               /\ out' = <<>>
               /\ UNCHANGED <<rooms, sweep>>
          ELSE sweepTo(resumeSweep(rooms, userCountUpdated(h.c, h.d)), Tail(cmdq))
    /\ UNCHANGED <<proc, clientVars>>
    /\ UNCHANGED <<redis, hash, points, images, adapter, conn, header, currentRoom,
                   userRooms, now, accepted, live>>

\* resumed after `await redisClient.hSet(roomKey, 'users', actualUsers)`
SweepAfterHSetUsers ==
    /\ proc = "running"
    /\ cmdq # <<>>
    /\ Head(cmdq).k = "sweep.hset.users"
    /\ LET h == Head(cmdq) IN
       /\ ev' = Ev(h.k, None, h.c, None)
       /\ IF isRedisAvailable
          THEN /\ hash' = [hash EXCEPT ![h.c] = [@ EXCEPT !.present = TRUE, !.users = h.d]]
               /\ cmdq' = Append(Tail(cmdq), Cmd("sweep.hset.lastActive", None, h.c, h.d))
               /\ out' = <<>>
               /\ UNCHANGED <<rooms, sweep>>
          ELSE /\ sweepTo(resumeSweep(rooms, userCountUpdated(h.c, h.d)), Tail(cmdq))
               /\ UNCHANGED hash
    /\ UNCHANGED <<proc, clientVars>>
    /\ UNCHANGED <<redis, points, images, adapter, conn, header, currentRoom,
                   userRooms, now, accepted, live>>

\* resumed after `await redisClient.hSet(roomKey, 'lastActive', Date.now())`
SweepAfterHSetLastActive ==
    /\ proc = "running"
    /\ cmdq # <<>>
    /\ Head(cmdq).k = "sweep.hset.lastActive"
    /\ LET h == Head(cmdq) IN
       /\ ev' = Ev(h.k, None, h.c, None)
       /\ IF isRedisAvailable
          THEN /\ hash' = [hash EXCEPT ![h.c] = [@ EXCEPT !.present = TRUE, !.lastActive = now]]
               /\ cmdq' = Append(Tail(cmdq), Cmd("sweep.ttl", None, h.c, h.d))
               /\ out' = <<>>
               /\ UNCHANGED <<rooms, sweep>>
          ELSE /\ sweepTo(resumeSweep(rooms, userCountUpdated(h.c, h.d)), Tail(cmdq))
               /\ UNCHANGED hash
    /\ UNCHANGED <<proc, clientVars>>
    /\ UNCHANGED <<redis, points, images, adapter, conn, header, currentRoom,
                   userRooms, now, accepted, live>>

\* resumed after `await redisClient.persist(roomKey)` or
\* `await redisClient.expire(roomKey, 2 * 60 * 60)`, then the emit
SweepAfterTtl ==
    /\ proc = "running"
    /\ cmdq # <<>>
    /\ Head(cmdq).k = "sweep.ttl"
    /\ LET h == Head(cmdq) IN
       /\ ev' = Ev(h.k, None, h.c, None)
       /\ hash' = IF isRedisAvailable /\ hash[h.c].present
                  THEN [hash EXCEPT ![h.c].ttl = IF h.d > 0 THEN "none" ELSE "2h"]
                  ELSE hash
       /\ sweepTo(resumeSweep(rooms, userCountUpdated(h.c, h.d)), Tail(cmdq))
    /\ UNCHANGED <<proc, clientVars>>
    /\ UNCHANGED <<redis, points, images, adapter, conn, header, currentRoom,
                   userRooms, now, accepted, live>>

\* resumed after `await redisClient.del(roomKey)`
SweepAfterDelRoom ==
    /\ proc = "running"
    /\ cmdq # <<>>
    /\ Head(cmdq).k = "sweep.del.room"
    /\ LET h == Head(cmdq) IN
       /\ ev' = Ev(h.k, None, h.c, None)
       /\ IF isRedisAvailable
          THEN /\ hash' = [hash EXCEPT ![h.c] = NoKey]
               /\ cmdq' = Append(Tail(cmdq), Cmd("sweep.del.points", None, h.c, None))
               /\ out' = <<>>
               /\ UNCHANGED <<rooms, sweep>>
          ELSE /\ sweepTo(resumeSweep(rooms, <<>>), Tail(cmdq))
               /\ UNCHANGED hash
    /\ UNCHANGED <<proc, clientVars>>
    /\ UNCHANGED <<redis, points, images, adapter, conn, header, currentRoom,
                   userRooms, now, accepted, live>>

\* resumed after `await redisClient.del(pointsKey)`
SweepAfterDelPoints ==
    /\ proc = "running"
    /\ cmdq # <<>>
    /\ Head(cmdq).k = "sweep.del.points"
    /\ LET h == Head(cmdq) IN
       /\ ev' = Ev(h.k, None, h.c, None)
       /\ IF isRedisAvailable
          THEN /\ points' = [points EXCEPT ![h.c] = <<>>]
               /\ accepted' = [accepted EXCEPT ![h.c] = SelectSeq(@, stillPending)]
               /\ cmdq' = Append(Tail(cmdq), Cmd("sweep.del.images", None, h.c, None))
               /\ out' = <<>>
               /\ UNCHANGED <<rooms, sweep>>
          ELSE /\ sweepTo(resumeSweep(rooms, <<>>), Tail(cmdq))
               /\ UNCHANGED <<points, accepted>>
    /\ UNCHANGED <<proc, clientVars>>
    /\ UNCHANGED <<redis, hash, images, adapter, conn, header, currentRoom,
                   userRooms, now, live>>

\* resumed after `await redisClient.del(imagesKey)`, then `delete rooms[roomCode]`
SweepAfterDelImages ==
    /\ proc = "running"
    /\ cmdq # <<>>
    /\ Head(cmdq).k = "sweep.del.images"
    /\ LET h == Head(cmdq) IN
       /\ ev' = Ev(h.k, None, h.c, None)
       /\ IF isRedisAvailable
          THEN /\ images' = [images EXCEPT ![h.c] = <<>>]
               /\ live' = [live EXCEPT ![h.c] = {}]
               /\ sweepTo(resumeSweep([rooms EXCEPT ![h.c] = NoRoom], <<>>), Tail(cmdq))
          ELSE /\ sweepTo(resumeSweep(rooms, <<>>), Tail(cmdq))
               /\ UNCHANGED <<images, live>>
    /\ UNCHANGED <<proc, clientVars>>
    /\ UNCHANGED <<redis, hash, points, adapter, conn, header, currentRoom,
                   userRooms, now, accepted>>

\* an hour passes; store calls are answered within the hour
Tick ==
    /\ cmdq = <<>>
    /\ now < MaxNow
    /\ now' = now + 1
    /\ out' = <<>>
    /\ ev' = Ev("tick", None, None, None)
    /\ UNCHANGED <<proc, sweep, clientVars>>
    /\ UNCHANGED <<redis, rooms, hash, points, images, adapter, conn, header,
                   currentRoom, userRooms, cmdq, accepted, live>>

\* --------------------------------------------------- image transfer
\* const MAX_CHUNK_SIZE = 50 * 1024, scaled to payloads of a few characters
MAX_CHUNK_SIZE == 2

Chars == {"x", "y"}

\* the image a client builds in compressAndProcessImage
image(s, p, ts) == [imageData |-> p, userId |-> s, timestamp |-> ts]

Min(a, b) == IF a < b THEN a ELSE b

\* Math.ceil(imageDataStr.length / MAX_CHUNK_SIZE)
totalChunks(img) == (Len(img.imageData) + MAX_CHUNK_SIZE - 1) \div MAX_CHUNK_SIZE

\* the imageChunk events that the loop of sendImageInChunks emits
sendImageInChunks(img) ==
    [i \in 1..totalChunks(img) |->
        [chunkIndex |-> i - 1,
         totalChunks |-> totalChunks(img),
         chunk |-> SubSeq(img.imageData, (i - 1) * MAX_CHUNK_SIZE + 1,
                          Min(i * MAX_CHUNK_SIZE, Len(img.imageData))),
         userId |-> img.userId,
         timestamp |-> img.timestamp,
         meta |-> IF i = 1 THEN [userId |-> img.userId, timestamp |-> img.timestamp]
                  ELSE NoSession.meta]]

\* a client hands an image to sendImageInChunks: one chunk goes out as a
\* pasteImage event (handled by the server in the same step), more go out as
\* imageChunk events
SendImage(s, p, ts) ==
    /\ conn[s] = "open"
    /\ currentRoom[s] # None
    /\ upq[s] = <<>>
    /\ Cardinality({i \in sent : i.userId = s}) < MaxSends
    /\ LET img == image(s, p, ts) IN
       IF totalChunks(img) = 1
       THEN PasteImage(s, img)
       ELSE /\ upq' = [upq EXCEPT ![s] = sendImageInChunks(img)]
            /\ sent' = sent \cup {img}
            /\ out' = <<>>
            /\ ev' = Ev("sendImageInChunks", s, None, None)
            /\ UNCHANGED <<downq, imageChunks, canvas, seen, proc, sweep>>
            /\ UNCHANGED <<redis, rooms, hash, points, images, adapter, conn, header,
                           currentRoom, userRooms, cmdq, now, accepted, live>>

\* socket.on('imageChunk') of the server: relay to the other members
ImageChunk(s) ==
    /\ proc = "running"
    /\ conn[s] = "open"
    /\ upq[s] # <<>>
    /\ LET data == Head(upq[s])
           c == currentRoom[s] IN
       /\ ev' = Ev("imageChunk", s, c, None)
       /\ upq' = [upq EXCEPT ![s] = Tail(@)]
       /\ IF c = None
          THEN /\ out' = toSocket(conn, s, Msg(c, "error"))
               /\ UNCHANGED downq
          ELSE /\ out' = toOthers(adapter, conn, c, s,
                                  [Msg(c, "imageChunk") EXCEPT !.from = s, !.data = <<data>>])
               /\ downq' = [r \in Sockets |->
                              IF r \in Receivers(adapter, conn, c) \ {s}
                              THEN Append(downq[r], data) ELSE downq[r]]
    /\ UNCHANGED <<imageChunks, canvas, sent, seen, proc, sweep>>
    /\ UNCHANGED <<redis, rooms, hash, points, images, adapter, conn, header,
                   currentRoom, userRooms, cmdq, now, accepted, live>>

\* chunks.join(''): a slot that was never written contributes nothing
RECURSIVE join(_)
join(chunks) == IF chunks = <<>> THEN <<>> ELSE Head(chunks) \o join(Tail(chunks))

\* chunks[chunkIndex] = chunk, on an array that grows when the index is past
\* its end
setChunk(chunks, i, chunk) ==
    [k \in 1..(IF i > Len(chunks) THEN i ELSE Len(chunks)) |->
        IF k = i THEN chunk ELSE IF k <= Len(chunks) THEN chunks[k] ELSE <<>>]

\* socket.on('imageChunk') of the client
OnImageChunk(r) ==
    /\ downq[r] # <<>>
    /\ LET data == Head(downq[r])
           ts == data.timestamp
           opened == IF data.chunkIndex = 0
                     THEN [present |-> TRUE,
                           chunks |-> [i \in 1..data.totalChunks |-> <<>>],
                           meta |-> data.meta,
                           received |-> 0]
                     ELSE imageChunks[r][ts]
           stored == [opened EXCEPT
                         !.chunks = setChunk(@, data.chunkIndex + 1, data.chunk),
                         !.received = @ + 1]
           img == [imageData |-> join(stored.chunks), userId |-> stored.meta.userId,
                   timestamp |-> ts]
           c == currentRoom[r]
       IN  /\ downq' = [downq EXCEPT ![r] = Tail(@)]
           /\ seen' = [seen EXCEPT ![r] = @ \cup {<<data.userId, ts, data.chunkIndex>>}]
           /\ ev' = Ev("client.imageChunk", r, c, None)
           /\ out' = <<>>
           /\ IF data.userId = r \/ ~opened.present
              THEN UNCHANGED <<imageChunks, canvas, live>>
              ELSE IF stored.received = data.totalChunks
              THEN /\ canvas' = [canvas EXCEPT ![r] = Append(@, img)]
                   /\ imageChunks' = [imageChunks EXCEPT ![r][ts] = NoSession]
                   /\ live' = IF c = None THEN live ELSE [live EXCEPT ![c] = @ \cup {img}]
              ELSE /\ imageChunks' = [imageChunks EXCEPT ![r][ts] = stored]
                   /\ UNCHANGED <<canvas, live>>
    /\ UNCHANGED <<upq, sent, proc, sweep>>
    /\ UNCHANGED <<redis, rooms, hash, points, images, adapter, conn, header,
                   currentRoom, userRooms, cmdq, now, accepted>>

\* ------------------------------------------------------- specification
\* What the process may find in the store when it starts (docker-compose
\* restarts it after every exit): nothing, the record that GET /room/:roomCode
\* stored for a code (no creatorId, no drawingEnabled), or the record that
\* GET /api/create-room stored for the creator token "t1".
StoredRooms ==
    {NoKey,
     [present |-> TRUE, lastActive |-> 1, users |-> 0, creatorId |-> Undef,
      drawingEnabled |-> Undef, ttl |-> "24h"],
     [present |-> TRUE, lastActive |-> 1, users |-> 0, creatorId |-> "t1",
      drawingEnabled |-> STrue, ttl |-> "24h"]}

\* the server after start: no rooms in memory, no connections; the store
\* client is absent (development) or connected (production)
InitServer ==
    /\ rooms = [c \in Codes |-> NoRoom]
    /\ points = [c \in Codes |-> <<>>]
    /\ images = [c \in Codes |-> <<>>]
    /\ adapter = [c \in Codes |-> {}]
    /\ conn = [s \in Sockets |-> "new"]
    /\ header = [s \in Sockets |-> Undef]
    /\ currentRoom = [s \in Sockets |-> None]
    /\ userRooms = [s \in Sockets |-> None]
    /\ cmdq = <<>>
    /\ now = 1
    /\ out = <<>>
    /\ ev = NoEv
    /\ accepted = [c \in Codes |-> <<>>]
    /\ live = [c \in Codes |-> {}]
    /\ proc = "running"
    /\ sweep = NoSweep

\* the pages of the clients before any transfer
InitClients ==
    /\ upq = [s \in Sockets |-> <<>>]
    /\ downq = [s \in Sockets |-> <<>>]
    /\ imageChunks = [s \in Sockets |-> [ts \in Timestamps |-> NoSession]]
    /\ canvas = [s \in Sockets |-> <<>>]
    /\ sent = {}
    /\ seen = [s \in Sockets |-> {}]

Init ==
    /\ InitServer
    /\ InitClients
    /\ redis \in {"none", "up"}
    /\ \E h \in StoredRooms :
          hash = [c \in Codes |-> IF c = "r1" /\ redis = "up" THEN h ELSE NoKey]

\* Rooms, creator authority and the draw gate: two connections, one room
\* code, the room page route and the create-room API.
Next ==
    \/ \E s \in {"s1", "s2"}, h \in HeaderVals : Connect(s, h)
    \/ \E s \in {"s1", "s2"} : JoinRoom(s, "r1")
    \/ \E s \in {"s1", "s2"}, e \in {BTrue, BFalse} : ToggleDrawing(s, e)
    \/ \E s \in {"s1", "s2"} : Draw(s, "a")
    \/ \E s \in {"s1", "s2"} : ClearCanvas(s)
    \/ RoomPage("r1")
    \/ \E tok \in Tokens : CreateRoomApi("r1", tok)
    \/ JoinAfterExists \/ JoinAfterHGetAll \/ JoinAfterPoints \/ JoinAfterImages
    \/ StoreRoomHSet \/ StoreRoomExpire
    \/ ToggleAfterHSet
    \/ DrawAfterRPush \/ DrawAfterExpire
    \/ ClearAfterPoints \/ ClearAfterImages
    \/ ApiAfterExists \/ ApiAfterHGetAll \/ ApiAfterHSet \/ ApiAfterExpire

Spec == Init /\ [][Next]_vars

\* The stroke log and its replay: header-less connections join one room, draw
\* and clear while the store connection comes and goes.
InitReplay ==
    /\ InitServer
    /\ InitClients
    /\ redis \in {"none", "up"}
    /\ hash = [c \in Codes |-> NoKey]

NextReplay ==
    \/ \E s \in {"s1", "s2"} : Connect(s, Undef)
    \/ \E s \in {"s1", "s2"} : JoinRoom(s, "r1")
    \/ \E s \in {"s1", "s2"}, d \in Strokes : Draw(s, d)
    \/ \E s \in {"s1", "s2"} : ClearCanvas(s)
    \/ RedisError \/ RedisConnect
    \/ JoinAfterExists \/ JoinAfterPoints \/ JoinAfterImages
    \/ StoreRoomHSet \/ StoreRoomExpire
    \/ DrawAfterRPush \/ DrawAfterExpire
    \/ ClearAfterPoints \/ ClearAfterImages

SpecReplay == InitReplay /\ [][NextReplay]_vars

\* Presence and eviction: connections join, switch and leave two rooms while
\* the clock advances and the setInterval callback runs.
InitSweep ==
    /\ InitServer
    /\ InitClients
    /\ redis \in {"none", "up"}
    /\ \E h \in StoredRooms :
          /\ h.creatorId = Undef
          /\ hash = [c \in Codes |-> IF c = "r2" /\ redis = "up" THEN h ELSE NoKey]

NextSweep ==
    \/ \E s \in {"s1", "s2"} : Connect(s, Undef)
    \/ \E c \in Codes : JoinRoom("s1", c)
    \/ JoinRoom("s2", "r1")
    \/ \E s \in {"s1", "s2"} : Disconnect(s)
    \/ RoomPage("r1")
    \/ Tick
    \/ Sweep
    \/ SweepAfterExists \/ SweepAfterHSetUsers \/ SweepAfterHSetLastActive
    \/ SweepAfterTtl
    \/ SweepAfterDelRoom \/ SweepAfterDelPoints \/ SweepAfterDelImages
    \/ JoinAfterExists \/ JoinAfterHGetAll \/ JoinAfterPoints \/ JoinAfterImages
    \/ StoreRoomHSet \/ StoreRoomExpire

SpecSweep == InitSweep /\ [][NextSweep]_vars

\* Image transfer: three connections of one room; "s1" sends a short or a
\* long image, "s2" a long one.
Short == <<"x">>
LongA == [i \in 1..(MAX_CHUNK_SIZE + 1) |-> IF i % 2 = 1 THEN "x" ELSE "y"]
LongB == [i \in 1..(MAX_CHUNK_SIZE + 1) |-> IF i % 2 = 1 THEN "y" ELSE "x"]

InitImages ==
    /\ InitServer
    /\ InitClients
    /\ redis = "up"
    /\ hash = [c \in Codes |-> NoKey]

NextImages ==
    \/ \E s \in Sockets : Connect(s, Undef)
    \/ \E s \in Sockets : JoinRoom(s, "r1")
    \/ \E p \in {Short, LongA} : SendImage("s1", p, 1)
    \/ \E ts \in Timestamps : SendImage("s2", LongB, ts)
    \/ \E s \in {"s1", "s2"} : ImageChunk(s)
    \/ \E r \in {"s2", "s3"} : OnImageChunk(r)
    \/ PasteAfterRPush \/ PasteAfterExpire
    \/ JoinAfterExists \/ JoinAfterPoints \/ JoinAfterImages
    \/ StoreRoomHSet \/ StoreRoomExpire

SpecImages == InitImages /\ [][NextImages]_vars

\* Reassembly alone: the chunks of one image of "s1" reach the client "s2" in
\* any order.
arrivalOrders(n) == {f \in [1..n -> 1..n] : \A i, j \in 1..n : f[i] = f[j] => i = j}

ChunkedPayloads ==
    UNION {[1..n -> Chars] : n \in (MAX_CHUNK_SIZE + 1)..MaxPayload}

InitReassembly ==
    /\ InitServer
    /\ redis = "none"
    /\ hash = [c \in Codes |-> NoKey]
    /\ upq = [s \in Sockets |-> <<>>]
    /\ imageChunks = [s \in Sockets |-> [ts \in Timestamps |-> NoSession]]
    /\ canvas = [s \in Sockets |-> <<>>]
    /\ seen = [s \in Sockets |-> {}]
    /\ \E p \in ChunkedPayloads, ts \in Timestamps :
          LET img == image("s1", p, ts)
              chunks == sendImageInChunks(img) IN
          /\ sent = {img}
          /\ \E f \in arrivalOrders(Len(chunks)) :
                downq = [s \in Sockets |->
                           IF s = "s2" THEN [i \in 1..Len(chunks) |-> chunks[f[i]]]
                           ELSE <<>>]

NextReassembly == OnImageChunk("s2")

SpecReassembly == InitReassembly /\ [][NextReassembly]_vars

\* Store outage: two connections of one room paste a short image while the
\* store client loses and regains its connection.
InitOutage ==
    /\ InitServer
    /\ InitClients
    /\ redis \in {"none", "up"}
    /\ hash = [c \in Codes |-> NoKey]

NextOutage ==
    \/ \E s \in {"s1", "s2"} : Connect(s, Undef)
    \/ \E s \in {"s1", "s2"} : JoinRoom(s, "r1")
    \/ \E s \in {"s1", "s2"} : PasteImage(s, image(s, Short, 1))
    \/ RedisError \/ RedisConnect
    \/ PasteAfterRPush \/ PasteAfterExpire
    \/ JoinAfterExists \/ JoinAfterPoints \/ JoinAfterImages
    \/ StoreRoomHSet \/ StoreRoomExpire

SpecOutage == InitOutage /\ [][NextOutage]_vars

\* Two rooms: s1 may join either room, s2 joins r1, both draw and leave.
InitRooms ==
    /\ InitServer
    /\ InitClients
    /\ redis \in {"none", "up"}
    /\ hash = [c \in Codes |-> NoKey]

NextRooms ==
    \/ \E s \in {"s1", "s2"} : Connect(s, Undef)
    \/ \E c \in Codes : JoinRoom("s1", c)
    \/ JoinRoom("s2", "r1")
    \/ \E s \in {"s1", "s2"} : Draw(s, "a")
    \/ \E s \in {"s1", "s2"} : Disconnect(s)
    \/ JoinAfterExists \/ JoinAfterPoints \/ JoinAfterImages
    \/ StoreRoomHSet \/ StoreRoomExpire
    \/ DrawAfterRPush \/ DrawAfterExpire

SpecRooms == InitRooms /\ [][NextRooms]_vars

\* Room codes: the create-room API searches a code space of two codes, some of
\* them already stored by an earlier life of the process or taken by the room
\* page route.
InitCodes ==
    /\ InitServer
    /\ InitClients
    /\ redis \in {"none", "up"}
    /\ hash \in [Codes -> StoredRooms]
    /\ redis = "none" => hash = [c \in Codes |-> NoKey]

NextCodes ==
    \/ \E tok \in Tokens : CreateUniqueRoomCode(tok)
    \/ \E c \in Codes : RoomPage(c)
    \/ RedisError \/ RedisConnect
    \/ CodeAfterExists \/ CodeAfterHGetAll
    \/ ApiAfterHSet \/ ApiAfterExpire
    \/ StoreRoomHSet \/ StoreRoomExpire

SpecCodes == InitCodes /\ [][NextCodes]_vars

\* What the store holds after a life of the process in which the creator of
\* r1 switched drawing off, or off and on again
ToggledRooms ==
    {[present |-> TRUE, lastActive |-> 1, users |-> 0, creatorId |-> "t1",
      drawingEnabled |-> e, ttl |-> "24h"] : e \in {STrue, SFalse}}

\* Reload: the process starts with an empty room table and the record of r1 in
\* the store; connections join, draw and toggle.
InitReload ==
    /\ InitServer
    /\ InitClients
    /\ redis = "up"
    /\ \E h \in ToggledRooms : hash = [c \in Codes |-> IF c = "r1" THEN h ELSE NoKey]

NextReload ==
    \/ \E s \in {"s1", "s2"}, h \in HeaderVals : Connect(s, h)
    \/ \E s \in {"s1", "s2"} : JoinRoom(s, "r1")
    \/ \E s \in {"s1", "s2"}, e \in {BTrue, BFalse} : ToggleDrawing(s, e)
    \/ \E s \in {"s1", "s2"} : Draw(s, "a")
    \/ JoinAfterExists \/ JoinAfterHGetAll \/ JoinAfterPoints \/ JoinAfterImages
    \/ ToggleAfterHSet
    \/ DrawAfterRPush \/ DrawAfterExpire

SpecReload == InitReload /\ [][NextReload]_vars

\* Permission changes during store outages: header-less connections join one
\* room, the first of them is its creator and toggles drawing while the store
\* connection comes and goes.
InitToggle ==
    /\ InitServer
    /\ InitClients
    /\ redis \in {"none", "up"}
    /\ hash = [c \in Codes |-> NoKey]

NextToggle ==
    \/ \E s \in {"s1", "s2"} : Connect(s, Undef)
    \/ \E s \in {"s1", "s2"} : JoinRoom(s, "r1")
    \/ \E s \in {"s1", "s2"}, e \in {BTrue, BFalse} : ToggleDrawing(s, e)
    \/ RedisError \/ RedisConnect
    \/ JoinAfterExists \/ JoinAfterPoints \/ JoinAfterImages
    \/ StoreRoomHSet \/ StoreRoomExpire
    \/ ToggleAfterHSet

SpecToggle == InitToggle /\ [][NextToggle]_vars

\* Order of two strokes: s1 sends stroke a and then stroke b into room r1
\* while s2 is a member and the store connection comes and goes.
InitOrder ==
    /\ InitServer
    /\ InitClients
    /\ redis \in {"none", "up"}
    /\ hash = [c \in Codes |-> NoKey]

NextOrder ==
    \/ \E s \in {"s1", "s2"} : Connect(s, Undef)
    \/ \E s \in {"s1", "s2"} : JoinRoom(s, "r1")
    \/ (accepted["r1"] = <<>> /\ Draw("s1", "a"))
    \/ (Len(accepted["r1"]) = 1 /\ Draw("s1", "b"))
    \/ RedisError \/ RedisConnect
    \/ JoinAfterExists \/ JoinAfterPoints \/ JoinAfterImages
    \/ StoreRoomHSet \/ StoreRoomExpire
    \/ DrawAfterRPush \/ DrawAfterExpire

SpecOrder == InitOrder /\ [][NextOrder]_vars

\* Member counts: connections join two rooms, leave, ping and ask for the
\* room information.
InitCount ==
    /\ InitServer
    /\ InitClients
    /\ redis \in {"none", "up"}
    /\ hash = [c \in Codes |-> NoKey]

NextCount ==
    \/ \E s \in {"s1", "s2"} : Connect(s, Undef)
    \/ \E c \in Codes : JoinRoom("s1", c)
    \/ JoinRoom("s2", "r1")
    \/ \E s \in {"s1", "s2"} : Disconnect(s)
    \/ \E s \in {"s1", "s2"}, cb \in BOOLEAN : Ping(s, cb)
    \/ \E s \in {"s1", "s2"} : RequestRoomInfo(s)
    \/ JoinAfterExists \/ JoinAfterPoints \/ JoinAfterImages
    \/ StoreRoomHSet \/ StoreRoomExpire

SpecCount == InitCount /\ [][NextCount]_vars

\* Activity: members of one room draw and toggle while the clock advances.
InitActive ==
    /\ InitServer
    /\ InitClients
    /\ redis \in {"none", "up"}
    /\ hash = [c \in Codes |-> NoKey]

NextActive ==
    \/ \E s \in {"s1", "s2"} : Connect(s, Undef)
    \/ \E s \in {"s1", "s2"} : JoinRoom(s, "r1")
    \/ \E s \in {"s1", "s2"} : Draw(s, "a")
    \/ \E s \in {"s1", "s2"}, e \in {BTrue, BFalse} : ToggleDrawing(s, e)
    \/ Tick
    \/ JoinAfterExists \/ JoinAfterPoints \/ JoinAfterImages
    \/ StoreRoomHSet \/ StoreRoomExpire
    \/ DrawAfterRPush \/ DrawAfterExpire
    \/ ToggleAfterHSet

SpecActive == InitActive /\ [][NextActive]_vars

\* Two transfers at one receiver: "s1" and "s2" each send an image of three
\* chunks; the server relays the chunks of each transfer in index order and
\* "s3" receives the two streams merged in any way.
RECURSIVE merges(_, _)
merges(a, b) ==
    IF a = <<>> THEN {b}
    ELSE IF b = <<>> THEN {a}
    ELSE {<<Head(a)>> \o m : m \in merges(Tail(a), b)}
         \cup {<<Head(b)>> \o m : m \in merges(a, Tail(b))}

FullA == [i \in 1..MaxPayload |-> IF i % 2 = 1 THEN "x" ELSE "y"]
FullB == [i \in 1..MaxPayload |-> IF i % 2 = 1 THEN "y" ELSE "x"]

InitMerge ==
    /\ InitServer
    /\ redis = "none"
    /\ hash = [c \in Codes |-> NoKey]
    /\ upq = [s \in Sockets |-> <<>>]
    /\ imageChunks = [s \in Sockets |-> [ts \in Timestamps |-> NoSession]]
    /\ canvas = [s \in Sockets |-> <<>>]
    /\ seen = [s \in Sockets |-> {}]
    /\ \E tsA \in Timestamps, tsB \in Timestamps :
          LET imgA == image("s1", FullA, tsA)
              imgB == image("s2", FullB, tsB) IN
          /\ sent = {imgA, imgB}
          /\ \E m \in merges(sendImageInChunks(imgA), sendImageInChunks(imgB)) :
                downq = [s \in Sockets |-> IF s = "s3" THEN m ELSE <<>>]

NextMerge == OnImageChunk("s3")

SpecMerge == InitMerge /\ [][NextMerge]_vars

\* Expiry of stored room records: rooms are created by the room page route or
\* by a join, or found in the store, and their records expire.
InitExpiry ==
    /\ InitServer
    /\ InitClients
    /\ redis \in {"none", "up"}
    /\ \E h \in StoredRooms :
          hash = [c \in Codes |-> IF c = "r1" /\ redis = "up" THEN h ELSE NoKey]

NextExpiry ==
    \/ \E s \in {"s1", "s2"} : Connect(s, Undef)
    \/ \E s \in {"s1", "s2"} : JoinRoom(s, "r1")
    \/ RoomPage("r1")
    \/ KeyExpired("r1")
    \/ JoinAfterExists \/ JoinAfterHGetAll \/ JoinAfterPoints \/ JoinAfterImages
    \/ StoreRoomHSet \/ StoreRoomExpire

SpecExpiry == InitExpiry /\ [][NextExpiry]_vars

\* --------------------------------------------- replay of stored lists
\* What the lists of a room may hold when the process starts: entries written
\* by JSON.stringify, the literal null (JSON.stringify of a draw event whose
\* payload is null), and text that JSON.parse rejects.
MaxStored == 2

NullText == [text |-> "null", v |-> None]

BadText == [text |-> "garbage", v |-> None]

BadImage == [text |-> "garbage", v |-> image(None, <<>>, 0)]

StoredPoints == {JSONstringify(d) : d \in Strokes} \cup {NullText, BadText}

StoredImages == {JSONstringify(image("s1", Short, 1)), BadImage}

listsOf(S) == UNION {[1..k -> S] : k \in 0..MaxStored}

InitStored ==
    /\ rooms = [c \in Codes |-> NoRoom]
    /\ \E l \in listsOf(StoredPoints) :
          points = [c \in Codes |-> IF c = "r1" THEN l ELSE <<>>]
    /\ \E l \in listsOf(StoredImages) :
          images = [c \in Codes |-> IF c = "r1" THEN l ELSE <<>>]
    /\ adapter = [c \in Codes |-> {}]
    /\ conn = [s \in Sockets |-> "new"]
    /\ header = [s \in Sockets |-> Undef]
    /\ currentRoom = [s \in Sockets |-> None]
    /\ userRooms = [s \in Sockets |-> None]
    /\ cmdq = <<>>
    /\ now = 1
    /\ out = <<>>
    /\ ev = NoEv
    /\ accepted = [c \in Codes |-> <<>>]
    /\ live = [c \in Codes |-> {}]
    /\ proc = "running"
    /\ sweep = NoSweep
    /\ InitClients
    /\ redis = "up"
    /\ hash = [c \in Codes |-> NoKey]

NextStored ==
    \/ Connect("s1", Undef)
    \/ JoinRoom("s1", "r1")
    \/ RequestDrawingData("s1")
    \/ RequestImageData("s1")
    \/ RedisError \/ RedisConnect
    \/ JoinAfterExists \/ JoinAfterPoints \/ JoinAfterImages
    \/ StoreRoomHSet \/ StoreRoomExpire
    \/ RequestDrawingAfterLRange \/ RequestImageAfterLRange

SpecStored == InitStored /\ [][NextStored]_vars

\* ------------------------------------------- concurrent room creation
\* `${req.ip}-${Date.now()}` of two GET /api/create-room requests
CreatorIds == {"t1", "t2"}

InitCreate ==
    /\ InitServer
    /\ InitClients
    /\ redis \in {"none", "up"}
    /\ hash \in [Codes -> StoredRooms]
    /\ redis = "none" => hash = [c \in Codes |-> NoKey]

NextCreate ==
    \/ \E tok \in CreatorIds : CreateUniqueRoomCode(tok)
    \/ RedisError \/ RedisConnect
    \/ CodeAfterExists \/ CodeAfterHGetAll
    \/ ApiAfterHSet \/ ApiAfterExpire

SpecCreate == InitCreate /\ [][NextCreate]_vars

\* ------------------------------------------ strokes during a join
\* The store stays available: connections join while s1 draws.
InitOverlap ==
    /\ InitServer
    /\ InitClients
    /\ redis = "up"
    /\ hash = [c \in Codes |-> NoKey]

NextOverlap ==
    \/ \E s \in {"s1", "s2"} : Connect(s, Undef)
    \/ \E c \in Codes : JoinRoom("s1", c)
    \/ JoinRoom("s2", "r1")
    \/ \E d \in Strokes : Draw("s1", d)
    \/ JoinAfterExists \/ JoinAfterPoints \/ JoinAfterImages
    \/ StoreRoomHSet \/ StoreRoomExpire
    \/ DrawAfterRPush \/ DrawAfterExpire

SpecOverlap == InitOverlap /\ [][NextOverlap]_vars

\* --------------------------------------------- expiry of the list keys
\* A process started on stored lists of room r1; connections join the room
\* and the lists expire.
ListKeys == {"points", "images"}

NextListExpiry ==
    \/ \E s \in {"s1", "s2"} : Connect(s, Undef)
    \/ \E s \in {"s1", "s2"} : JoinRoom(s, "r1")
    \/ ToggleDrawing("s1", BFalse)
    \/ \E k \in ListKeys : ListExpired("r1", k)
    \/ JoinAfterExists \/ JoinAfterPoints \/ JoinAfterImages
    \/ StoreRoomHSet \/ StoreRoomExpire
    \/ ToggleAfterHSet

SpecListExpiry == InitStored /\ [][NextListExpiry]_vars

\* Abandoned transfers: "s1" sends a chunked image to room r1 and may
\* disconnect before its last chunk; "s2" receives.  The server handles every
\* event it has received, the store answers every call and the page of "s2"
\* handles every event delivered to it.
InitAbandon ==
    /\ InitServer
    /\ InitClients
    /\ redis = "up"
    /\ hash = [c \in Codes |-> NoKey]

NextAbandon ==
    \/ \E s \in {"s1", "s2"} : Connect(s, Undef)
    \/ \E s \in {"s1", "s2"} : JoinRoom(s, "r1")
    \/ \E ts \in Timestamps : SendImage("s1", LongA, ts)
    \/ ImageChunk("s1")
    \/ OnImageChunk("s2")
    \/ Disconnect("s1")
    \/ JoinAfterExists \/ JoinAfterPoints \/ JoinAfterImages
    \/ StoreRoomHSet \/ StoreRoomExpire

SpecAbandon ==
    /\ InitAbandon
    /\ [][NextAbandon]_vars
    /\ WF_vars(ImageChunk("s1"))
    /\ WF_vars(OnImageChunk("s2"))
    /\ WF_vars(JoinAfterExists \/ JoinAfterPoints \/ JoinAfterImages
               \/ StoreRoomHSet \/ StoreRoomExpire)

\* --------------------------------------------------------- properties
\* the connection presents the identity that the room record binds as creator:
\* its socket id or its creator token is the record's creatorId
boundCreator(s, r) ==
    /\ r.present
    /\ r.creatorId \notin {Undef, ""}
    /\ (s = r.creatorId \/ header[s] = r.creatorId)

\* C2: a toggleDrawing event changes a room's drawingEnabled only when its
\* sender is the identity bound as the room's creatorId; sent by any other
\* member it leaves drawingEnabled as it was.
C2_OnlyBoundCreatorToggles ==
    [][\A c \in Codes :
          (ev'.kind = "toggleDrawing" /\ ev'.c = c
             /\ (rooms'[c].drawingEnabled = BFalse) # (rooms[c].drawingEnabled = BFalse))
          => boundCreator(ev'.s, rooms[c])]_vars

\* C3: a draw event handled while drawingEnabled is false is dropped (not
\* logged, not relayed) when its sender is not the room's creator, and passes
\* the gate (to be logged and relayed) when its sender is the creator.
C3_DisabledGate ==
    [][(ev'.kind = "draw" /\ ev'.c # None /\ rooms[ev'.c].present
          /\ rooms[ev'.c].drawingEnabled = BFalse)
       => IF boundCreator(ev'.s, rooms[ev'.c])
          THEN /\ Len(accepted'[ev'.c]) = Len(accepted[ev'.c]) + 1
               /\ accepted'[ev'.c][Len(accepted'[ev'.c])].d = ev'.d
          ELSE accepted' = accepted /\ cmdq' = cmdq /\ out' = <<>>]_vars

\* C4: no step of a clearCanvas handler whose sender is not the room's creator
\* changes the stroke log or the image sequence or relays clearCanvas; the
\* steps of the creator's handler empty the log, then the images, and relay.
C4_ClearOnlyByCreator ==
    [][(ev'.kind \in {"clearCanvas", "clear.points", "clear.images"} /\ ev'.c # None)
       => IF boundCreator(ev'.s, rooms[ev'.c])
          THEN /\ (ev'.kind = "clear.points" /\ isRedisAvailable => points'[ev'.c] = <<>>)
               /\ (ev'.kind = "clear.images" /\ isRedisAvailable => images'[ev'.c] = <<>>)
          ELSE /\ points' = points /\ images' = images /\ cmdq' = cmdq
               /\ \A i \in 1..Len(out') : out'[i].ev # "clearCanvas"]_vars

\* C9: once a room record has a creatorId, no later event changes it while the
\* room exists.
C9_CreatorIdImmutable ==
    [][\A c \in Codes :
          (rooms[c].present /\ rooms[c].creatorId # Undef /\ rooms'[c].present)
          => rooms'[c].creatorId = rooms[c].creatorId]_vars

\* the strokes of a history log, in the order they passed the gate
strokesOf(log) == [i \in 1..Len(log) |-> log[i].d]

isSaved(e) == e.st = "saved"
isAnswered(e) == e.st # "pending"

\* the steps of a joinRoom handler
joinSteps == {"joinRoom", "join.exists", "join.hgetall", "join.points", "join.images"}

\* the loadDrawing payloads a joinRoom handler emitted in the last step
replayed == {i \in 1..Len(out) : out[i].ev = "loadDrawing" /\ ev.kind \in joinSteps}

noJoinError == ev.kind \in joinSteps => \A i \in 1..Len(out) : out[i].ev # "error"

\* a joinRoom event that found the store available has its history read
\* under way: the handler is suspended on the store and will send loadDrawing
replayUnderWay ==
    (ev.kind = "joinRoom" /\ isRedisAvailable)
        => \E i \in 1..Len(cmdq) :
              cmdq[i].s = ev.s /\ cmdq[i].k \in {"join.exists", "join.points"}

\* C5: with the store available a connection that joins a room is sent
\* loadDrawing, and its content is exactly the strokes accepted for the room
\* so far (those whose handler has gone through saveDrawingPoint), in append
\* order; with the store unavailable it is empty; the join emits no error.
C5_ReplayAllAccepted ==
    /\ replayUnderWay
    /\ \A i \in replayed :
          out[i].data = IF isRedisAvailable
                        THEN strokesOf(SelectSeq(accepted[out[i].room], isAnswered))
                        ELSE <<>>
    /\ noJoinError

\* What a loadDrawing that is sent does carry: the stroke list of the store
\* holds, in append order, exactly the strokes accepted since the last clear
\* whose save succeeded, and with the store available the loadDrawing of a
\* join is exactly that list; with the store unavailable it is empty; the
\* join emits no error.
ReplayIsStoredList ==
    /\ \A c \in Codes :
          parseList(points[c]) = strokesOf(SelectSeq(accepted[c], isSaved))
    /\ \A i \in replayed :
          out[i].data = IF isRedisAvailable
                        THEN strokesOf(SelectSeq(accepted[out[i].room], isSaved))
                        ELSE <<>>
    /\ noJoinError

\* a join replays two saved strokes while a third, accepted in between without
\* the store, is missing
ReplayMissesLostStroke ==
    /\ ev.kind = "join.points"
    /\ \E i \in replayed : out[i].data # <<>>
    /\ \E c \in Codes : \E j \in 1..Len(accepted[c]) : accepted[c][j].st = "lost"


\* C1: every member count sent to clients (roomJoined, userJoined, userLeft,
\* userCountUpdated) equals the size of the room's live connection set at the
\* moment it is emitted, and a room whose count was just reported caches
\* that same number in rooms[code].users.
C1_CountsAreLive ==
    proc = "running" =>
        \A i \in 1..Len(out) :
            out[i].users >= 0 =>
                /\ out[i].users = size(adapter, out[i].room)
                /\ rooms[out[i].room].present =>
                       rooms[out[i].room].users = size(adapter, out[i].room)


sweepSteps == {"sweep", "sweep.exists", "sweep.hset.users", "sweep.hset.lastActive",
               "sweep.ttl", "sweep.del.room", "sweep.del.points", "sweep.del.images"}

\* a room without members, and how long it has been inactive
emptyRoom(rm, ad, c) == rm[c].present /\ rm[c].users = 0 /\ ad[c] = {}

\* C8: a sweep cycle deletes a room with zero members whose lastActive is
\* more than one hour in the past and retains a room with zero members whose
\* lastActive is at most one hour in the past: when a cycle has ended no
\* empty room idle for more than an hour is left in the room table, and no
\* step of a cycle removes an empty room that is idle for an hour or less.
C8_SweepEvictsAfterOneHour ==
    [][ev'.kind \in sweepSteps =>
          \A c \in Codes :
              /\ (sweep'.phase = "idle" /\ emptyRoom(rooms', adapter', c))
                     => now' - rooms'[c].lastActive <= Hour
              /\ (emptyRoom(rooms, adapter, c) /\ now - rooms[c].lastActive <= Hour)
                     => rooms'[c].present]_vars


\* the identifiers <<origin, timestamp, index>> of the chunks of image img
chunkIds(img) == {<<img.userId, img.timestamp, i>> : i \in 0..(totalChunks(img) - 1)}

\* the images on a canvas that equal img
copies(cv, img) == {k \in 1..Len(cv) : cv[k] = img}

\* C6: reassembly does not depend on the arrival order: once every chunk of
\* a transfer has arrived at the receiver, in whatever order, the receiver
\* has completed the transfer to the original payload in index order.
C6_AnyArrivalOrderCompletes ==
    \A img \in sent :
        downq["s2"] = <<>> /\ chunkIds(img) \subseteq seen["s2"]
            => canvas["s2"] = <<img>>

\* C7: a payload split into n > 1 chunks, relayed by the server and received
\* in index order by another member is, after its last chunk, on that
\* member's canvas as exactly one image with the original payload and the
\* metadata of chunk 0.
C7_ChunkedRoundTrip ==
    \A r \in Sockets : \A img \in sent :
        (img.userId # r /\ totalChunks(img) > 1 /\ chunkIds(img) \subseteq seen[r])
            => Cardinality(copies(canvas[r], img)) = 1

\* the images delivered live in room c before connection s became a member:
\* s has received no chunk of them and has none of them on its canvas
deliveredBefore(s, c) ==
    {img \in live[c] : /\ img.userId # s
                       /\ copies(canvas[s], img) = {}
                       /\ \A id \in seen[s] : id[1] # img.userId \/ id[2] # img.timestamp}

\* C10: every image delivered live to the members of a room, by pasteImage
\* or by a completed chunked transfer, is contained in the loadImages that a
\* member joining afterwards is sent.
C10_LiveImagesAreReplayed ==
    (proc = "running" /\ ev.kind = "join.images" /\ isRedisAvailable
        /\ conn[ev.s] = "open" /\ downq[ev.s] = <<>>)
    => \A img \in deliveredBefore(ev.s, ev.c) :
          \E i \in 1..Len(out) :
              /\ out[i].ev = "loadImages"
              /\ \E k \in 1..Len(out[i].data) : out[i].data[k] = img


\* the steps of a pasteImage handler
pasteSteps == {"pasteImage", "paste.rpush", "paste.expire"}

\* the messages of the last step that carry event e to connection s
sentTo(s, e) == {i \in 1..Len(out) : out[i].to = s /\ out[i].ev = e}

\* C11: a pasteImage of a joined member that is handled while the store is
\* unavailable is relayed to every other member of the room and no error
\* event is sent to the sender.
C11_PasteRelayedDuringOutage ==
    (proc = "running" /\ ev.kind \in pasteSteps /\ ev.c # None /\ ~isRedisAvailable)
    => /\ sentTo(ev.s, "error") = {}
       /\ \A r \in Receivers(adapter, conn, ev.c) \ {ev.s} : sentTo(r, "pasteImage") # {}

\* C12: a joinRoom event handled while the store is unavailable still
\* completes: the process goes on, the connection is a member of the room
\* and is sent roomJoined, an empty loadDrawing and an empty loadImages, and
\* no step of a join handler sends it an error event.
C12_JoinCompletesWithoutStore ==
    /\ (ev.kind = "joinRoom" /\ ~isRedisAvailable)
       => /\ proc = "running"
          /\ ev.s \in adapter[ev.c]
          /\ sentTo(ev.s, "roomJoined") # {}
          /\ \E i \in sentTo(ev.s, "loadDrawing") : out[i].data = <<>>
          /\ \E i \in sentTo(ev.s, "loadImages") : out[i].data = <<>>
    /\ (ev.kind \in joinSteps /\ ev.s # None) => sentTo(ev.s, "error") = {}


\* the toggleDrawing of connection s in room c is denied: s has joined no
\* room, the room has no record, or neither the socket id nor the creator
\* token of s is the record's creatorId
deniedToggle(s, c) ==
    \/ c = None
    \/ ~rooms[c].present
    \/ (s # rooms[c].creatorId /\ header[s] # rooms[c].creatorId)

\* C13: a denied toggleDrawing sends one error event, to the requester only;
\* drawingEnabled is unchanged in the cache and in the store, no store write
\* is started and nobody is sent drawingPermissionChanged.
C13_DeniedToggleOnlyErrors ==
    [][(ev'.kind = "toggleDrawing" /\ deniedToggle(ev'.s, ev'.c))
       => /\ rooms' = rooms
          /\ hash' = hash
          /\ cmdq' = cmdq
          /\ Len(out') = 1
          /\ out'[1].ev = "error" /\ out'[1].to = ev'.s]_vars

\* a member that is not the creator has its toggleDrawing denied while the
\* room has another member
C13_Witness ==
    /\ ev.kind = "toggleDrawing"
    /\ ev.c # None
    /\ rooms[ev.c].creatorId \notin {Undef, ev.s, header[ev.s]}
    /\ Cardinality(Receivers(adapter, conn, ev.c)) >= 2
    /\ sentTo(ev.s, "error") # {}

\* the rooms whose live set holds connection s
memberships(s) == {c \in Codes : s \in adapter[c]}

relayEvents == {"draw", "imageChunk", "pasteImage"}

relaySteps == {"draw", "draw.rpush", "draw.expire", "imageChunk", "pasteImage",
               "paste.rpush", "paste.expire"}

\* C14: a draw, imageChunk or pasteImage relay reaches every open connection
\* of the sender's current room except the sender, never the sender, and never
\* a connection that is in a different room.
C14_RelayStaysInRoom ==
    \A i \in 1..Len(out) :
        out[i].ev \in relayEvents /\ ev.kind \in relaySteps
        => /\ out[i].room = currentRoom[ev.s]
           /\ out[i].to # ev.s
           /\ \A r \in Receivers(adapter, conn, out[i].room) \ {ev.s} :
                  sentTo(r, out[i].ev) # {}
           /\ memberships(out[i].to) = {out[i].room}

roomScoped == {"draw", "clearCanvas", "toggleDrawing", "imageChunk", "pasteImage",
               "requestDrawingData", "requestImageData"}

\* C15: a room-scoped event on a connection that has not joined a room is
\* answered with an error event on that connection.
C15_NoRoomIsAnError ==
    (ev.kind \in roomScoped /\ ev.c = None /\ conn[ev.s] = "open")
    => sentTo(ev.s, "error") # {}

\* C17: a connection is in the live set of at most one room.
C17_OneRoomPerConnection ==
    \A s \in Sockets : Cardinality(memberships(s)) <= 1

\* C16: while a room has a live member, its stored record expires after 24
\* hours or never, not after the two hours of the grace period.
C16_LiveRoomKeepsActiveTtl ==
    \A c \in Codes :
        (Receivers(adapter, conn, c) # {} /\ hash[c].present)
        => hash[c].ttl \in {"24h", "none"}

\* C18: createUniqueRoomCode makes a bounded number of attempts; with every
\* code in use it stops instead of sampling without end.
C18_CodeSearchStops == proc # "spinning"

delSteps == {"sweep.del.room", "sweep.del.points", "sweep.del.images"}

\* the sweeper is suspended in the deletion of room c
deleting(c) == \E i \in 1..Len(cmdq) : cmdq[i].k \in delSteps /\ cmdq[i].c = c

\* a connection is never a live member of a room without a record
memberHasRecord ==
    \A s \in Sockets :
        (proc = "running" /\ conn[s] = "open" /\ currentRoom[s] # None
           /\ s \in adapter[currentRoom[s]])
        => rooms[currentRoom[s]].present

\* C19: a joinRoom that arrives while the sweeper is deleting the room leaves
\* the connection a member of a room that has a record, and the sweeper never
\* leaves a live member in a room whose record it removed.
C19_SweepRemovesOnlyEmptyRooms ==
    /\ [][(ev'.kind = "joinRoom" /\ deleting(ev'.c))
          => /\ proc' = "running"
             /\ ev'.s \in adapter'[ev'.c]
             /\ rooms'[ev'.c].present]_vars
    /\ []memberHasRecord

\* C20: a room whose stored record says drawing is disabled is still Disabled
\* once the record has been reloaded by joinRoom: roomJoined reports
\* drawingEnabled false and the draw gate stops every non-creator.
C20_DisabledSurvivesReload ==
    (proc = "running" /\ ev.kind = "join.hgetall"
       /\ isRedisAvailable /\ hash[ev.c].drawingEnabled = SFalse)
    => /\ \A i \in sentTo(ev.s, "roomJoined") : out[i].enabled = BFalse
       /\ \A s \in Sockets : s # rooms[ev.c].creatorId => ~drawAllowed(s, rooms[ev.c])

\* C21: when the store call of an accepted toggleDrawing has been answered,
\* with or without an error, every member of the room is sent
\* drawingPermissionChanged with the new value and the creator gets no error.
C21_ToggleSurvivesStoreError ==
    (proc = "running" /\ ev.kind = "toggle.hset")
    => /\ sentTo(ev.s, "error") = {}
       /\ \A r \in Receivers(adapter, conn, ev.c) :
             \E i \in sentTo(r, "drawingPermissionChanged") : out[i].enabled = ev.d

drawSteps == {"draw.rpush", "draw.expire"}

\* the draw handler of stroke d is suspended in saveDrawingPoint
unrelayed(d) == \E i \in 1..Len(cmdq) : cmdq[i].k \in drawSteps /\ cmdq[i].d = d

\* C22: stroke a, sent before stroke b by the same connection, is in the
\* stroke log before b and is relayed before b.
C22_SameSenderOrder ==
    /\ points["r1"] # <<JSONstringify("b"), JSONstringify("a")>>
    /\ (\E i \in 1..Len(out) : out[i].ev = "draw" /\ out[i].data = <<"b">>)
       => ~unrelayed("a")

\* the step tells every open member of room c that its count is now n
countSent(c, n) ==
    \A r \in Receivers(adapter', conn', c) :
        \E i \in 1..Len(out') : /\ out'[i].to = r
                                /\ out'[i].ev = "userCountUpdated"
                                /\ out'[i].users = n

\* C23: a step of the running process that changes the cached member count of
\* a room sends userCountUpdated with the new count to the room; updateRoomInfo
\* on a room whose cached count equals the size of its live set sends nothing.
C23_CountChangeIsAnnounced ==
    /\ [][proc' = "running"
          => \A c \in Codes :
                (rooms'[c].present /\ rooms'[c].users # rooms[c].users)
                => countSent(c, rooms'[c].users)]_vars
    /\ [](\A c \in Codes :
             (rooms[c].present /\ rooms[c].users = size(adapter, c))
             => updateRoomInfo(rooms, adapter, conn, c).out = <<>>)

\* C24: an accepted draw or toggleDrawing sets lastActive of the room to the
\* time of the event.
C24_ActivityTouchesRoom ==
    /\ (ev.kind = "draw" /\ ev.c # None /\ proc = "running"
          /\ rooms[ev.c].present /\ drawAllowed(ev.s, rooms[ev.c]))
       => rooms[ev.c].lastActive = now
    /\ (ev.kind = "toggleDrawing" /\ ev.c # None /\ proc = "running"
          /\ rooms[ev.c].present /\ isCreator(ev.s, rooms[ev.c]))
       => rooms[ev.c].lastActive = now

\* C25: every image a receiver reassembles is an image that was sent: its
\* payload, origin and timestamp are those of one transfer, also when two
\* transfers carry the same timestamp.
C25_SessionsKeptApart ==
    \A r \in Sockets : \A k \in 1..Len(canvas[r]) : canvas[r][k] \in sent

\* C26: a receiver completes a session (puts its image on the canvas) only
\* with a chunk after which every index 0..totalChunks-1 of the session has
\* been stored; a repeated index does not stand in for a missing one.
C26_CompleteOnlyWithAllIndices ==
    [][\A r \in Sockets :
          Len(canvas'[r]) > Len(canvas[r])
          => LET data == Head(downq[r]) IN
             \A i \in 0..(data.totalChunks - 1) :
                \/ i = data.chunkIndex
                \/ /\ data.chunkIndex # 0
                   /\ imageChunks[r][data.timestamp].chunks[i + 1] # <<>>]_vars

\* the sessions buffered at receiver r
buffered(r) == {ts \in Timestamps : imageChunks[r][ts].present}

\* C27: a transfer whose origin disconnected before its last chunk puts no
\* image on the receiver's canvas, and the receiver eventually holds no
\* session of the disconnected origin.
C27_AbandonedSessionDiscarded ==
    /\ [](\A k \in 1..Len(canvas["s2"]) :
             chunkIds(canvas["s2"][k]) \subseteq seen["s2"])
    /\ [](conn["s1"] = "closed" => <>(buffered("s2") = {}))

\* C28: once the stored record of a room has expired, the room is not in the
\* room table.
C28_ExpiryEvictsCache ==
    (proc = "running" /\ ev.kind = "expired") => ~rooms[ev.c].present

\* the entries of a stored list that JSON.parse accepts, and the values of
\* those that give a value other than null, both in stored order
parseable(l) == SelectSeq(l, LAMBDA e : e.text \in {"object", "null"})

values(l) == LET k == SelectSeq(l, LAMBDA e : e.text = "object")
             IN  [i \in 1..Len(k) |-> k[i].v]

\* the list a replay step of a working store has sent to its requester
replaySent(l, e) == \A i \in sentTo(ev.s, e) : out[i].data = values(l)

createSteps == {"GET /api/create-room", "code.exists", "code.hgetall"}

\* C30: a create-room request never takes a code whose room is already in the
\* room table: no step of a request replaces the creatorId, drawingEnabled or
\* member count of a present room, so two requests that interleave at the
\* existence lookup do not end with the same code.
C30_CreateKeepsExistingRoom ==
    [][(proc' = "running" /\ ev'.kind \in createSteps) =>
          \A c \in Codes :
             rooms[c].present =>
                /\ rooms'[c].present
                /\ rooms'[c].creatorId = rooms[c].creatorId
                /\ rooms'[c].drawingEnabled = rooms[c].drawingEnabled
                /\ rooms'[c].users = rooms[c].users]_vars

\* C31: in a Disabled room whose creatorId is a token, a draw event of a
\* connection that the creator test of toggleDrawing accepts (by its id or by
\* its x-creator-id header) is accepted.
C31_GateAgreesWithCreatorTest ==
    [][\A s \in Sockets :
          LET c == currentRoom[s] IN
          (/\ proc' = "running"
           /\ ev'.kind = "draw" /\ ev'.s = s
           /\ c # None
           /\ rooms[c].present
           /\ rooms[c].creatorId \in Tokens
           /\ rooms[c].drawingEnabled = BFalse
           /\ isCreator(s, rooms[c]))
          => Len(accepted'[c]) = Len(accepted[c]) + 1]_vars

\* C32: in a room whose record has no creatorId, every toggleDrawing and
\* every clearCanvas is answered with one error event to the requester and
\* changes nothing, with or without an x-creator-id header.
C32_UnboundRoomHasNoCreator ==
    [][(/\ ev'.kind \in {"toggleDrawing", "clearCanvas"}
        /\ ev'.c # None
        /\ rooms[ev'.c].present
        /\ rooms[ev'.c].creatorId = Undef)
       => /\ rooms' = rooms
          /\ cmdq' = cmdq
          /\ Len(out') = 1
          /\ out'[1].ev = "error" /\ out'[1].to = ev'.s]_vars

\* the draw relays among the emissions o
drawRelays(o) == {i \in 1..Len(o) : o[i].ev = "draw"}

\* C33: while a room is Disabled, no step of a draw handler of a connection
\* that is not its creator (neither by id nor by header) appends to the
\* stroke log or relays the stroke, a handler resumed after its store write
\* included.
C33_NoDrawAfterDisable ==
    [][(/\ proc' = "running"
        /\ ev'.kind \in {"draw", "draw.rpush", "draw.expire"}
        /\ ev'.c # None
        /\ rooms[ev'.c].present
        /\ rooms[ev'.c].drawingEnabled = BFalse
        /\ ~isCreator(ev'.s, rooms[ev'.c]))
       => /\ points' = points
          /\ drawRelays(out') = {}]_vars

\* C34: with the store available, the loadDrawing of a join holds every
\* stroke stored so far, and a stroke stored after it is relayed to every
\* other open member of the live set of the room it was accepted in: a
\* connection that joins while a stroke is accepted gets it one way or the
\* other.
C34_JoinerGetsEveryStroke ==
    [][(proc' = "running" /\ isRedisAvailable) =>
          /\ ev'.kind = "join.points" =>
                \A i \in 1..Len(out') :
                   out'[i].ev = "loadDrawing" =>
                      /\ out'[i].to = ev'.s
                      /\ out'[i].data = drawingPoints(ev'.c)
          /\ ev'.kind = "draw.expire" =>
                \A j \in Receivers(adapter, conn, ev'.c) \ {ev'.s} :
                   \E i \in 1..Len(out') :
                      /\ out'[i].to = j
                      /\ out'[i].ev = "draw"
                      /\ out'[i].data = <<ev'.d>>]_vars

\* C35: a connection that has disconnected is in no live set and has no
\* entry in userRooms, also when one of its joinRoom handlers was suspended
\* on a store call while it disconnected.
C35_DisconnectedIsNowhere ==
    \A s \in Sockets :
       (proc = "running" /\ conn[s] = "closed")
       => /\ \A c \in Codes : s \notin adapter[c]
          /\ userRooms[s] = None

\* C36: no joinRoom event ends the process with an unhandled exception.
C36_JoinNeverThrows ==
    ~(ev.kind = "joinRoom" /\ proc = "exited")

evictable(c) ==
    rooms[c].present /\ rooms[c].users <= 0 /\ now - rooms[c].lastActive > Hour

\* C38: when a run of the sweeper has ended, no empty room inactive for more
\* than one hour is left in the room table, with or without a working store.
C38_EvictionWithoutStore ==
    (proc = "running" /\ ev.kind \in sweepSteps /\ sweep.phase = "idle")
    => \A c \in Codes : ~evictable(c)

\* the last step sent connection s exactly one event e
sentOnce(s, e) == Cardinality(sentTo(s, e)) = 1

\* C39: the step of a join that sends roomJoined has put the joiner into the
\* live set, sends roomJoined once and sends every other open member
\* userJoined with the size of the live set; loadDrawing follows once in the
\* step resumed after the stroke list, loadImages once when the join ends,
\* and within one step loadDrawing precedes loadImages.
C39_JoinNotificationOrder ==
    (proc = "running" /\ ev.kind \in joinSteps /\ conn[ev.s] = "open") =>
       /\ sentTo(ev.s, "roomJoined") # {} =>
             /\ ev.s \in adapter[ev.c]
             /\ sentOnce(ev.s, "roomJoined")
             /\ \A r \in Receivers(adapter, conn, ev.c) \ {ev.s} :
                   \E i \in sentTo(r, "userJoined") :
                      out[i].users = Cardinality(adapter[ev.c])
             /\ \A i \in sentTo(ev.s, "roomJoined"), k \in sentTo(ev.s, "loadDrawing") :
                   i < k
       /\ ev.kind = "join.points" => sentOnce(ev.s, "loadDrawing")
       /\ \A i \in sentTo(ev.s, "loadDrawing"), k \in sentTo(ev.s, "loadImages") : i < k
       /\ (ev.kind \in {"join.points", "join.images"}
            /\ \A i \in 1..Len(cmdq) : ~(cmdq[i].k = "join.images" /\ cmdq[i].s = ev.s))
          => sentOnce(ev.s, "loadImages")

====
